---------------------------- MODULE Spec2Model ----------------------------
(***************************************************************************)
(* A model of callgraph_analyzer: the dependency graph builder             *)
(* (dependency_graph_builder.py, models.py), the command-line tools that   *)
(* read a results file (cli.py: visualize, trace-api, search-func) and the *)
(* repository structure scanner (repo_analyzer.py), the language analyzers *)
(* (analyzers/), the analysis service (analysis_service.py), the command   *)
(* line (cli.py: main) and the safe file operations (utils/security.py).   *)
(*                                                                         *)
(* Each subsystem has its own specification over its own variables; the    *)
(* variables of the other subsystems stay at their idle values.            *)
(***************************************************************************)
EXTENDS Integers, Sequences, FiniteSets, TLC

VARIABLES
    \* ---- dependency graph builder ----
    nodes,              \* the Node objects the analyzers emitted (a list)
    functions,          \* analysis_result["functions"]: the func_data dicts
    relationships,      \* analysis_result["relationships"]: the rel dicts
    components,         \* the component map: id -> Node
    leaf_nodes,         \* the returned list of leaf ids
    phase,              \* "emitted" -> "analysed" -> "built"
    \* ---- trace-api ----
    trace_components,   \* results["components"] of the file trace-api loads
    trace_args,         \* api_url, recursive, max_depth of the command line
    matching,           \* matching_components still to be printed
    stack,              \* the active loops over depends_on, innermost last
    out,                \* what has been printed, one event per line group
    http_lines,         \* the "HTTP Method:" lines printed, in order
    pc,                 \* "start" -> "walk" -> "done"
    \* ---- visualize ----
    viz_components,     \* results["components"] of the file visualize loads
    dot,                \* the DOT text written with and without the flag
    \* ---- search-func ----
    search_components,  \* results["components"] of the file search-func loads
    search_args,        \* keyword and max_depth of the command line
    search_out,         \* what search-func printed, one record per target
    \* ---- repository structure scanner ----
    fs,                 \* the entries below the repository root
    denied,             \* the directories whose listing is refused
    scan_root,          \* Path(repo_path).parts
    include_patterns,   \* RepoAnalyzer.include_patterns
    exclude_patterns,   \* RepoAnalyzer.exclude_patterns
    file_tree,          \* the scan's result
    total_files,        \* summary["total_files"]
    scanned,            \* whether analyze_repository_structure returned
    \* ---- Java analyzer ----
    java_file,          \* the type declarations of the analysed Java file
    java_nodes,         \* TreeSitterJavaAnalyzer.nodes
    java_done,          \* whether analyze_java_file returned
    java_body,          \* the object creations in the body of the method
    java_rels,          \* the relationships analyze_java_file returned
    java_too_deep,      \* whether the syntax tree is deeper than the recursion limit
    java_outcome,       \* "returned", or the exception analyze_java_file raised
    \* ---- C analyzer ----
    c_parsers,          \* PARSERS: the languages setup_parsers registered
    c_file,             \* the function definitions of the analysed C file
    c_nodes,            \* TreeSitterCAnalyzer.nodes
    c_rels,             \* TreeSitterCAnalyzer.call_relationships
    c_done,             \* whether analyze_c_file returned
    \* ---- C++ analyzer ----
    cpp_parsers,        \* PARSERS: the languages setup_parsers registered
    cpp_file,           \* the class and functions of the analysed C++ file
    cpp_nodes,          \* TreeSitterCppAnalyzer.nodes
    cpp_rels,           \* TreeSitterCppAnalyzer.call_relationships
    cpp_done,           \* whether analyze_cpp_file returned
    \* ---- PHP analyzer ----
    php_parsers,        \* PARSERS: the languages setup_parsers registered
    php_file,           \* the declarations of the analysed PHP file
    php_nodes,          \* TreeSitterPHPAnalyzer.nodes
    php_rels,           \* TreeSitterPHPAnalyzer.call_relationships
    php_done,           \* whether analyze_php_file returned
    \* ---- command line ----
    cli_command,        \* args.command
    cli_env,            \* the files and the repository the command works on
    cli_outcome,        \* "running", then how the handler ended
    cli_stderr,         \* the error line printed to standard error
    cli_exit,           \* the exit status of the process; -1 while it runs
    \* ---- analysis service ----
    svc_entry,          \* the entry point called
    svc_fault,          \* the stage that raises, and its exception
    svc_pc,             \* the stage to run, then "returned" or "raised"
    svc_error,          \* the exception that leaves the entry point
    svc_caught,         \* how many times an except clause ran
    \* ---- safe file operations ----
    sec_base,           \* the allowed base directory
    sec_target,         \* the path to validate or to read
    sec_pc,             \* "ready", then "guarded" or "opened"
    sec_result,         \* the outcome of the call and its message
    sec_opened,         \* the resolved paths open() was called on
    sec_text            \* the text returned

buildVars == <<nodes, functions, relationships, components, leaf_nodes, phase>>
traceVars == <<trace_components, trace_args, matching, stack, out,
               http_lines, pc>>

vizVars == <<viz_components, dot>>

searchVars == <<search_components, search_args, search_out>>

scanVars == <<fs, denied, scan_root, include_patterns, exclude_patterns,
              file_tree, total_files, scanned>>

javaVars == <<java_file, java_nodes, java_done, java_body, java_rels,
              java_too_deep, java_outcome>>

cVars == <<c_parsers, c_file, c_nodes, c_rels, c_done>>

cppVars == <<cpp_parsers, cpp_file, cpp_nodes, cpp_rels, cpp_done>>

phpVars == <<php_parsers, php_file, php_nodes, php_rels, php_done>>

cliVars == <<cli_command, cli_env, cli_outcome, cli_stderr, cli_exit>>

svcVars == <<svc_entry, svc_fault, svc_pc, svc_error, svc_caught>>

secVars == <<sec_base, sec_target, sec_pc, sec_result, sec_opened, sec_text>>

vars == <<buildVars, traceVars, vizVars, searchVars, scanVars, javaVars,
          cVars, cppVars, phpVars, cliVars, svcVars, secVars>>

\* What the steps of one subsystem leave alone.
notBuild == <<traceVars, vizVars, searchVars, scanVars, javaVars, cVars,
              cppVars, phpVars, cliVars, svcVars, secVars>>
notTrace == <<buildVars, vizVars, searchVars, scanVars, javaVars, cVars,
              cppVars, phpVars, cliVars, svcVars, secVars>>
notViz == <<buildVars, traceVars, searchVars, scanVars, javaVars, cVars,
            cppVars, phpVars, cliVars, svcVars, secVars>>
notSearch == <<buildVars, traceVars, vizVars, scanVars, javaVars, cVars,
               cppVars, phpVars, cliVars, svcVars, secVars>>
notScan == <<buildVars, traceVars, vizVars, searchVars, javaVars, cVars,
             cppVars, phpVars, cliVars, svcVars, secVars>>
notJava == <<buildVars, traceVars, vizVars, searchVars, scanVars, cVars,
             cppVars, phpVars, cliVars, svcVars, secVars>>
notC == <<buildVars, traceVars, vizVars, searchVars, scanVars, javaVars,
          cppVars, phpVars, cliVars, svcVars, secVars>>
notCpp == <<buildVars, traceVars, vizVars, searchVars, scanVars, javaVars,
            cVars, phpVars, cliVars, svcVars, secVars>>
notPhp == <<buildVars, traceVars, vizVars, searchVars, scanVars, javaVars,
            cVars, cppVars, cliVars, svcVars, secVars>>
notCli == <<buildVars, traceVars, vizVars, searchVars, scanVars, javaVars,
            cVars, cppVars, phpVars, svcVars, secVars>>
notSvc == <<buildVars, traceVars, vizVars, searchVars, scanVars, javaVars,
            cVars, cppVars, phpVars, cliVars, secVars>>
notSec == <<buildVars, traceVars, vizVars, searchVars, scanVars, javaVars,
            cVars, cppVars, phpVars, cliVars, svcVars>>

-----------------------------------------------------------------------------
(* Generic helpers *)

Range(s) == {s[i] : i \in 1..Len(s)}

Min(a, b) == IF a < b THEN a ELSE b

\* All sequences over S of length at most n.
SeqsUpTo(S, n) == UNION {[1..k -> S] : k \in 0..n}

\* The lists without repetition that enumerate exactly the set S.
Orderings(S) ==
    {l \in [1..Cardinality(S) -> S] : Range(l) = S}

\* The empty mapping (an empty dict).
EmptyMap == [x \in {} |-> {}]

-----------------------------------------------------------------------------
(* Dependency graph builder *)

\* Bounds of the builder's inputs.
MaxFuncs == 2
MaxRels == 2

\* Ids the analyzers give to nodes, and ids a dependency or a callee may name
\* ("X" is never the id of a node: a dangling reference).
KeyPool == {"A", "B"}
DepPool == {"B", "X"}

\* Node (only the fields the builder reads or writes; every other field is
\* copied through unchanged by Node(**...)).
NodePool == [id : KeyPool, depends_on : SUBSET DepPool]

\* CallRelationship.model_dump(): a dict with caller and callee (call_line and
\* is_resolved are not read by the builder). "" is the dataclass default.
Rel(a, b) == [caller |-> a, callee |-> b]
RelPool == {Rel("A", "B"), Rel("A", "X"), Rel("A", ""), Rel("B", "X")}

\* list(self.depends_on): each element once, in an order the set's hashing
\* decides.
SetToList(S) == Orderings(S)

\* Node.model_dump(): the dicts a node may serialize to.
ModelDump(node) ==
    {[id |-> node.id, kind |-> "list", list |-> l, set |-> {}] :
        l \in SetToList(node.depends_on)}

\* A node handed over as a plain dict without serialization: depends_on is
\* still a set, and a dict that never had the key carries none.
RawDict(node) ==
    IF node.depends_on = {}
    THEN [id |-> node.id, kind |-> "absent", list |-> <<>>, set |-> {}]
    ELSE [id |-> node.id, kind |-> "set", list |-> <<>>, set |-> node.depends_on]

\* set(func_data['depends_on'])
ListToSetEmpty(l) == {}
ListToSet(l) == Range(l)

\* The conversion of one func_data into a Node.
NodeFromFuncData(fd) ==
    [id |-> fd.id,
     depends_on |->
        IF fd.kind = "list" THEN ListToSet(fd.list)
        ELSE IF fd.kind = "set" THEN fd.set
        ELSE {}]

\* components[node.id] = node, in list order: a later func_data with the same
\* id replaces an earlier one.
RECURSIVE ComponentsFrom(_)
ComponentsFrom(funcs) ==
    IF funcs = <<>> THEN EmptyMap
    ELSE LET rest == ComponentsFrom(SubSeq(funcs, 1, Len(funcs) - 1))
             node == NodeFromFuncData(funcs[Len(funcs)])
         IN  [k \in DOMAIN rest \cup {node.id} |->
                 IF k = node.id THEN node ELSE rest[k]]

\* if caller_id in components and callee_id:
AddsDependencyNever(comps, rel) == FALSE
AddsDependencyKnownOnly(comps, rel) ==
    rel.caller \in DOMAIN comps /\ rel.callee \in DOMAIN comps
AddsDependency(comps, rel) ==
    rel.caller \in DOMAIN comps /\ rel.callee # ""

\* The loop that replays every relationship into depends_on.
RECURSIVE PopulateDependsOn(_, _)
PopulateDependsOn(comps, rels) ==
    IF rels = <<>> THEN comps
    ELSE LET rel == Head(rels)
             next == IF AddsDependency(comps, rel)
                     THEN [comps EXCEPT ![rel.caller].depends_on =
                                            @ \cup {rel.callee}]
                     ELSE comps
         IN  PopulateDependsOn(next, Tail(rels))

\* if caller_id in potential_leafs: if callee_id in components: discard
DiscardsLeafAnyCallee(comps, potential, rel) == rel.caller \in potential
DiscardsLeaf(comps, potential, rel) ==
    rel.caller \in potential /\ rel.callee \in DOMAIN comps

RECURSIVE LeafLoop(_, _, _)
LeafLoop(comps, potential, rels) ==
    IF rels = <<>> THEN potential
    ELSE LET rel == Head(rels)
         IN  LeafLoop(comps,
                      IF DiscardsLeaf(comps, potential, rel)
                      THEN potential \ {rel.caller} ELSE potential,
                      Tail(rels))

\* _get_leaf_nodes: the set whose listing is returned.
GetLeafNodes(comps, rels) == LeafLoop(comps, DOMAIN comps, rels)

BuildStart ==
    /\ nodes \in SeqsUpTo(NodePool, MaxFuncs)
    /\ relationships \in SeqsUpTo(RelPool, MaxRels)
    /\ functions = <<>>
    /\ components = EmptyMap
    /\ leaf_nodes = <<>>
    /\ phase = "emitted"

\* The analysis result reaches the builder with every node serialized by
\* model_dump.
AnalyzeDumped ==
    /\ phase = "emitted"
    /\ functions' \in {f \in [1..Len(nodes) -> UNION {ModelDump(nodes[i]) : i \in 1..Len(nodes)}] :
                          \A i \in 1..Len(nodes) : f[i] \in ModelDump(nodes[i])}
    /\ phase' = "analysed"
    /\ UNCHANGED <<nodes, relationships, components, leaf_nodes>>
    /\ UNCHANGED notBuild

\* The analysis result reaches the builder as plain dicts whose depends_on is
\* still a set, or is missing.
AnalyzeRaw ==
    /\ phase = "emitted"
    /\ functions' = [i \in 1..Len(nodes) |-> RawDict(nodes[i])]
    /\ phase' = "analysed"
    /\ UNCHANGED <<nodes, relationships, components, leaf_nodes>>
    /\ UNCHANGED notBuild

\* build_dependency_graph, after analyze_repository returned.
BuildDependencyGraph ==
    /\ phase = "analysed"
    /\ LET comps == PopulateDependsOn(ComponentsFrom(functions), relationships)
       IN  /\ components' = comps
           /\ leaf_nodes' \in SetToList(GetLeafNodes(comps, relationships))
    /\ phase' = "built"
    /\ UNCHANGED <<nodes, functions, relationships>>
    /\ UNCHANGED notBuild

BuildNext == AnalyzeDumped \/ AnalyzeRaw \/ BuildDependencyGraph

-----------------------------------------------------------------------------
(* Properties of the dependency graph builder *)

Keys == DOMAIN components

\* The node an id's component was built from: the last one emitted with it.
LastNode(c) ==
    nodes[CHOOSE i \in 1..Len(nodes) :
            /\ nodes[i].id = c
            /\ \A j \in (i + 1)..Len(nodes) : nodes[j].id # c]

CallsKnown(c) ==
    \E i \in 1..Len(relationships) :
        relationships[i].caller = c /\ relationships[i].callee \in Keys

Callees(c) ==
    {relationships[i].callee :
        i \in {j \in 1..Len(relationships) : relationships[j].caller = c}}

\* C1: after build_dependency_graph the leaf list enumerates, each id once,
\* exactly the components that have no relationship to a known component: a
\* component with a relationship whose callee is a key is not a leaf, and one
\* whose relationships all target non-keys (or that has none) is a leaf.
C1_LeafSetExact ==
    phase = "built" =>
        /\ Range(leaf_nodes) = {c \in Keys : ~CallsKnown(c)}
        /\ Len(leaf_nodes) = Cardinality(Range(leaf_nodes))

\* A calls the known B and is no leaf; B only calls the unknown X and is one.
C1_Witness ==
    /\ phase = "built"
    /\ Keys = {"A", "B"}
    /\ Rel("A", "B") \in Range(relationships)
    /\ Rel("B", "X") \in Range(relationships)
    /\ Range(leaf_nodes) = {"B"}

\* C2: after build_dependency_graph every relationship with a known caller
\* and a non-empty callee has its callee in the caller's depends_on, known
\* callee or not; and a component's depends_on holds nothing but what its
\* node carried and the callees of its own relationships, so a relationship
\* whose caller is no key changes no component.
C2_DependsOnPopulated ==
    phase = "built" =>
        /\ \A i \in 1..Len(relationships) :
              LET rel == relationships[i]
              IN  (rel.caller \in Keys /\ rel.callee # "")
                      => rel.callee \in components[rel.caller].depends_on
        /\ \A c \in Keys :
              components[c].depends_on \subseteq
                  LastNode(c).depends_on \cup Callees(c)

\* A's dangling callee X is recorded, and B -> X with B unknown is not.
C2_Witness ==
    /\ phase = "built"
    /\ Keys = {"A"}
    /\ LastNode("A").depends_on = {}
    /\ Range(relationships) = {Rel("A", "X"), Rel("B", "X")}
    /\ components["A"].depends_on = {"X"}

\* C10: model_dump lists every id of depends_on exactly once, and the set
\* build_dependency_graph rebuilds from that list is the original set: a
\* component with no relationship of its own ends with exactly the ids its
\* node carried.
C10_DependsOnRoundTrip ==
    /\ phase \in {"analysed", "built"} =>
          \A i \in 1..Len(functions) :
              functions[i].kind = "list" =>
                  /\ Range(functions[i].list) = nodes[i].depends_on
                  /\ Len(functions[i].list) = Cardinality(nodes[i].depends_on)
    /\ phase = "built" =>
          \A c \in Keys :
              Callees(c) = {} =>
                  components[c].depends_on = LastNode(c).depends_on

\* A two-element set with the dangling id X went through the list form.
C10_Witness ==
    /\ phase = "built"
    /\ \E i \in 1..Len(functions) :
          /\ functions[i].kind = "list"
          /\ Len(functions[i].list) = 2
          /\ Callees(functions[i].id) = {}
          /\ LastNode(functions[i].id) = nodes[i]
          /\ components[functions[i].id].depends_on = {"B", "X"}
          /\ "X" \notin Keys

\* Every node was emitted with an empty depends_on.
EmittedEmpty == \A i \in 1..Len(nodes) : nodes[i].depends_on = {}

\* C29: when the nodes are emitted with empty depends_on, a component is in
\* leaf_nodes after build_dependency_graph exactly when its depends_on holds
\* no key of the component map; leaf_nodes is always a subset of the keys.
C29_LeafRulesAgree ==
    phase = "built" =>
        /\ Range(leaf_nodes) \subseteq Keys
        /\ EmittedEmpty =>
              Range(leaf_nodes) =
                  {c \in Keys : components[c].depends_on \cap Keys = {}}

\* A and B were emitted with empty depends_on; A calls the known B, B the
\* unknown X: B's depends_on is {X} and B is the only leaf.
C29_Witness ==
    /\ phase = "built"
    /\ EmittedEmpty
    /\ Keys = {"A", "B"}
    /\ components["A"].depends_on = {"B"}
    /\ components["B"].depends_on = {"X"}
    /\ Range(leaf_nodes) = {"B"}

-----------------------------------------------------------------------------
(* trace-api: trace_api_calls and _trace_recursive *)

\* Largest --max-depth the model passes.
MaxTraceDepth == 3

\* deps_to_show = min(5, len(further_deps))
DepsToShow == 5

\* The components of the results file, in the file's order, and an id that no
\* component has.
TraceKeys == <<"A", "B", "C", "D">>
TraceIds == Range(TraceKeys) \cup {"X"}

\* The depends_on entries a results file may hold: every file of the model
\* holds a subset of them. They contain the chain A -> B -> C -> D, the
\* diamond A -> B, A -> C, B -> D, C -> D, a self-loop on C, the cycle
\* A -> B -> A through the endpoint and a dangling id.
CandidateEdges ==
    {<<"A", "B">>, <<"A", "C">>, <<"B", "C">>, <<"B", "D">>, <<"C", "D">>,
     <<"B", "A">>, <<"C", "C">>, <<"C", "X">>}

Successors(edges, c) == {e[2] : e \in {f \in edges : f[1] = c}}

\* The "http_method" entry of a component of the results file: the null
\* that model_dump writes for a Node whose http_method is None (A, D), no
\* entry at all (B), or a text (C).
HttpMethodEntry(k) ==
    CASE k = "B" -> "<absent>" [] k = "C" -> "GET" [] OTHER -> "<null>"

\* comp_data.get('http_method', 'N/A') inside an f-string: the default is
\* taken only when the key is absent, and None is formatted as "None".
HttpMethodText(comp_data) ==
    IF comp_data.http_method = "<absent>" THEN "N/A"
    ELSE IF comp_data.http_method = "<null>" THEN "None"
    ELSE comp_data.http_method

\* The results files: depends_on is the list model_dump wrote for the set,
\* A is an endpoint and D may be one under the same URL.
TraceFile(a, b, c, d, url) ==
    [k \in Range(TraceKeys) |->
        [depends_on |-> CASE k = "A" -> a [] k = "B" -> b
                          [] k = "C" -> c [] OTHER -> d,
         api_url |-> CASE k = "A" -> "/api" [] k = "D" -> url
                       [] OTHER -> "None",
         http_method |-> HttpMethodEntry(k)]]

TraceFiles ==
    UNION {
        {TraceFile(a, b, c, d, url) :
            a \in SetToList(Successors(edges, "A")),
            b \in SetToList(Successors(edges, "B")),
            c \in SetToList(Successors(edges, "C")),
            d \in SetToList(Successors(edges, "D")),
            url \in {"/api", "None"}}
        : edges \in SUBSET CandidateEdges}

\* if current_depth >= max_depth
MaxDepthReachedLate(current_depth, max_depth) == current_depth > max_depth
MaxDepthReached(current_depth, max_depth) == current_depth >= max_depth

\* if component_id in visited
IsCircularNever(component_id, visited) == FALSE
IsCircularShared(component_id, visited) ==
    component_id \in visited \cup
        {out[k].id : k \in {j \in 1..Len(out) : out[j].ev = "expand"}}
IsCircular(component_id, visited) == component_id \in visited

\* One printed item: what it is, the id it is about, the depth of the call
\* that printed it.
Event(ev, id, depth) == [ev |-> ev, id |-> id, depth |-> depth]

\* A loop over a depends_on list: the component it belongs to, the list it
\* walks and the next index, and the visited set and depth it passes to the
\* calls it makes.
Frame(id, deps, visited, depth) ==
    [id |-> id, deps |-> deps, i |-> 1, visited |-> visited, depth |-> depth]

\* further_deps[:deps_to_show]
Shown(further_deps) ==
    SubSeq(further_deps, 1, Min(DepsToShow, Len(further_deps)))

TraceStart ==
    /\ trace_components \in TraceFiles
    /\ trace_args \in [api_url : {"/api", "/none"},
                       recursive : BOOLEAN,
                       max_depth : 0..MaxTraceDepth]
    /\ matching = <<>>
    /\ stack = <<>>
    /\ out = <<>>
    /\ http_lines = <<>>
    /\ pc = "start"

\* trace_api_calls up to its loop: the components whose api_url is the one
\* asked for, in file order.
Matches(c) == trace_components[c].api_url = trace_args.api_url

TraceNoMatch ==
    /\ pc = "start"
    /\ SelectSeq(TraceKeys, Matches) = <<>>
    /\ out' = <<Event("no_components", "", 0)>>
    /\ pc' = "done"
    /\ UNCHANGED <<trace_components, trace_args, matching, stack>>
    /\ UNCHANGED http_lines
    /\ UNCHANGED notTrace

TraceFound ==
    /\ pc = "start"
    /\ SelectSeq(TraceKeys, Matches) # <<>>
    /\ matching' = SelectSeq(TraceKeys, Matches)
    /\ out' = <<Event("found", "", 0)>>
    /\ pc' = "walk"
    /\ UNCHANGED <<trace_components, trace_args, stack>>
    /\ UNCHANGED http_lines
    /\ UNCHANGED notTrace

\* One turn of "for comp_id in matching_components": the component's details,
\* then the loop over its depends_on (or "No dependencies found").
TraceComponent ==
    /\ pc = "walk"
    /\ stack = <<>>
    /\ matching # <<>>
    /\ LET comp_id == Head(matching)
           depends_on == trace_components[comp_id].depends_on
       IN  /\ matching' = Tail(matching)
           /\ IF depends_on # <<>>
              THEN /\ out' = out \o <<Event("component", comp_id, 0),
                                      Event("depends", comp_id, 0)>>
                   /\ stack' = <<Frame(comp_id, depends_on, {comp_id}, 1)>>
              ELSE /\ out' = out \o <<Event("component", comp_id, 0),
                                      Event("no_deps", comp_id, 0)>>
                   /\ stack' = stack
    /\ UNCHANGED <<trace_components, trace_args, pc>>
    /\ http_lines' = Append(http_lines,
            [id |-> Head(matching),
             text |-> HttpMethodText(trace_components[Head(matching)])])
    /\ UNCHANGED notTrace

Top == stack[Len(stack)]
HasNext == stack # <<>> /\ Top.i <= Len(Top.deps)
NextDep == Top.deps[Top.i]
Advanced == [stack EXCEPT ![Len(stack)].i = @ + 1]

\* Whether the loop on top of the stack calls _trace_recursive: the loop of
\* trace_api_calls does so only with --recursive.
Recurses == Len(stack) > 1 \/ trace_args.recursive

\* The loop of trace_api_calls without --recursive: the id is printed.
TraceListOnly ==
    /\ pc = "walk"
    /\ HasNext
    /\ ~Recurses
    /\ out' = out \o <<Event("dep", NextDep, Top.depth)>>
    /\ stack' = Advanced
    /\ UNCHANGED <<trace_components, trace_args, matching, pc>>
    /\ UNCHANGED http_lines
    /\ UNCHANGED notTrace

\* _trace_recursive returning at once: "(Max depth reached)".
TraceMaxDepth ==
    /\ pc = "walk"
    /\ HasNext
    /\ Recurses
    /\ MaxDepthReached(Top.depth, trace_args.max_depth)
    /\ out' = out \o <<Event("dep", NextDep, Top.depth),
                       Event("max", NextDep, Top.depth)>>
    /\ stack' = Advanced
    /\ UNCHANGED <<trace_components, trace_args, matching, pc>>
    /\ UNCHANGED http_lines
    /\ UNCHANGED notTrace

\* _trace_recursive returning at once: "(Circular reference detected,
\* stopping)".
TraceCircular ==
    /\ pc = "walk"
    /\ HasNext
    /\ Recurses
    /\ ~MaxDepthReached(Top.depth, trace_args.max_depth)
    /\ IsCircular(NextDep, Top.visited)
    /\ out' = out \o <<Event("dep", NextDep, Top.depth),
                       Event("circular", NextDep, Top.depth)>>
    /\ stack' = Advanced
    /\ UNCHANGED <<trace_components, trace_args, matching, pc>>
    /\ UNCHANGED http_lines
    /\ UNCHANGED notTrace

\* _trace_recursive on an id that is no component: "(not found in
\* components)".
TraceNotFound ==
    /\ pc = "walk"
    /\ HasNext
    /\ Recurses
    /\ ~MaxDepthReached(Top.depth, trace_args.max_depth)
    /\ ~IsCircular(NextDep, Top.visited)
    /\ NextDep \notin DOMAIN trace_components
    /\ out' = out \o <<Event("dep", NextDep, Top.depth),
                       Event("not_found", NextDep, Top.depth)>>
    /\ stack' = Advanced
    /\ UNCHANGED <<trace_components, trace_args, matching, pc>>
    /\ UNCHANGED http_lines
    /\ UNCHANGED notTrace

\* _trace_recursive printing a component's details and entering the loop over
\* its first dependencies, or printing "No further dependencies".
TraceExpand ==
    /\ pc = "walk"
    /\ HasNext
    /\ Recurses
    /\ ~MaxDepthReached(Top.depth, trace_args.max_depth)
    /\ ~IsCircular(NextDep, Top.visited)
    /\ NextDep \in DOMAIN trace_components
    /\ LET further_deps == trace_components[NextDep].depends_on
           new_visited == Top.visited \cup {NextDep}
       IN  IF further_deps # <<>>
           THEN /\ out' = out \o <<Event("dep", NextDep, Top.depth),
                                   Event("expand", NextDep, Top.depth)>>
                /\ stack' = Append(Advanced,
                                   Frame(NextDep, Shown(further_deps),
                                         new_visited, Top.depth + 1))
           ELSE /\ out' = out \o <<Event("dep", NextDep, Top.depth),
                                   Event("expand", NextDep, Top.depth),
                                   Event("no_further", NextDep, Top.depth)>>
                /\ stack' = Advanced
    /\ UNCHANGED <<trace_components, trace_args, matching, pc>>
    /\ http_lines' = Append(http_lines,
            [id |-> NextDep, text |-> HttpMethodText(trace_components[NextDep])])
    /\ UNCHANGED notTrace

\* The end of a loop over depends_on: "... and N more" when _trace_recursive
\* cut the list, then the return to the caller's loop.
TraceReturn ==
    /\ pc = "walk"
    /\ stack # <<>>
    /\ ~HasNext
    /\ LET all == trace_components[Top.id].depends_on
       IN  out' = IF Len(stack) > 1 /\ Len(all) > Len(Top.deps)
                  THEN Append(out, Event("more", Top.id, Top.depth - 1))
                  ELSE out
    /\ stack' = SubSeq(stack, 1, Len(stack) - 1)
    /\ UNCHANGED <<trace_components, trace_args, matching, pc>>
    /\ UNCHANGED http_lines
    /\ UNCHANGED notTrace

\* trace_api_calls returns after its last component.
TraceFinish ==
    /\ pc = "walk"
    /\ stack = <<>>
    /\ matching = <<>>
    /\ pc' = "done"
    /\ UNCHANGED <<trace_components, trace_args, matching, stack, out>>
    /\ UNCHANGED http_lines
    /\ UNCHANGED notTrace

TraceNext ==
    \/ TraceNoMatch
    \/ TraceFound
    \/ TraceComponent
    \/ TraceListOnly
    \/ TraceMaxDepth
    \/ TraceCircular
    \/ TraceNotFound
    \/ TraceExpand
    \/ TraceReturn
    \/ TraceFinish

-----------------------------------------------------------------------------
(* Properties of trace-api --recursive *)

IsResult(e) == e.ev \in {"max", "circular", "not_found", "expand"}

\* The branch a printed item belongs to, read off the output alone: the
\* component printed last before it, and for each smaller depth the
\* dependency expanded last at that depth.
EndpointAt(k) ==
    out[CHOOSE j \in 1..(k - 1) :
            /\ out[j].ev = "component"
            /\ \A m \in (j + 1)..(k - 1) : out[m].ev # "component"].id

AncestorAt(k, d) ==
    out[CHOOSE j \in 1..(k - 1) :
            /\ out[j].ev = "expand" /\ out[j].depth = d
            /\ \A m \in (j + 1)..(k - 1) :
                  ~(out[m].ev = "expand" /\ out[m].depth = d)].id

BranchAt(k) ==
    {EndpointAt(k)} \cup {AncestorAt(k, d) : d \in 1..(out[k].depth - 1)}

ChainFile == TraceFile(<<"B">>, <<"C">>, <<"D">>, <<>>, "None")
DiamondFile == TraceFile(<<"B", "C">>, <<"D">>, <<"D">>, <<>>, "None")
Recursive(n) == [api_url |-> "/api", recursive |-> TRUE, max_depth |-> n]

\* C3: with --recursive and --max-depth N, the calls made from a loop at
\* stack position d carry depth d (the distance from the endpoint); each
\* listed dependency gets exactly one answer, which is "(Max depth reached)"
\* exactly when its depth is N or more; a dependency is expanded only at a
\* depth from 1 to N - 1; and nothing is ever printed for a depth beyond N, so
\* the dependencies of one that hit the bound are never visited. On the chain
\* A -> B -> C -> D with N = 2 the output is B expanded, C "(Max depth
\* reached)", and nothing about D.
C3_MaxDepthBound ==
    /\ \A d \in 1..Len(stack) : stack[d].depth = d
    /\ \A k \in 1..Len(out) :
          /\ out[k].ev = "expand" =>
                out[k].depth >= 1 /\ out[k].depth < trace_args.max_depth
          /\ out[k].depth <= IF trace_args.max_depth > 1
                             THEN trace_args.max_depth ELSE 1
          /\ (out[k].ev = "dep" /\ trace_args.recursive) =>
                /\ k < Len(out)
                /\ IsResult(out[k + 1])
                /\ out[k + 1].id = out[k].id
                /\ out[k + 1].depth = out[k].depth
                /\ (out[k + 1].ev = "max") <=>
                       (out[k].depth >= trace_args.max_depth)
    /\ (pc = "done" /\ trace_components = ChainFile
            /\ trace_args = Recursive(2)) =>
          out = <<Event("found", "", 0), Event("component", "A", 0),
                  Event("depends", "A", 0),
                  Event("dep", "B", 1), Event("expand", "B", 1),
                  Event("dep", "C", 2), Event("max", "C", 2)>>

C3_Witness ==
    /\ pc = "done"
    /\ trace_components = ChainFile
    /\ trace_args = Recursive(2)
    /\ Event("expand", "B", 1) \in Range(out)
    /\ Event("max", "C", 2) \in Range(out)
    /\ \A k \in 1..Len(out) : out[k].id # "D"

\* An id that is listed below the depth bound while it is on the current
\* branch is answered by "(Circular reference detected, stopping)".
C4_StopsAtCycles ==
    \A k \in 1..Len(out) :
        (/\ out[k].ev = "dep"
         /\ trace_args.recursive
         /\ out[k].depth < trace_args.max_depth
         /\ out[k].id \in BranchAt(k))
            => (k < Len(out) /\ out[k + 1] = Event("circular", out[k].id, out[k].depth))

\* C4: trace-api --recursive terminates on every results file, cyclic or not,
\* and whenever the walk reaches, below the depth bound, an id that is on the
\* current branch (the endpoint included), it prints "(Circular reference
\* detected, stopping)" and does not expand the id.
C4_TerminatesOnCycles == <>(pc = "done") /\ [](C4_StopsAtCycles)

\* The walk ended after meeting the endpoint A again (A -> B -> A) and the
\* self-loop C -> C.
C4_Witness ==
    /\ pc = "done"
    /\ trace_args.recursive
    /\ Event("circular", "A", 2) \in Range(out)
    /\ Event("circular", "C", 2) \in Range(out)

\* C5: the visited set is local to a branch: "(Circular reference detected,
\* stopping)" is printed only for an id on the current branch, never because
\* a sibling branch expanded the id. In the diamond A -> B, A -> C, B -> D,
\* C -> D with a depth bound of 3, D is expanded under B and under C and no
\* circular reference is reported.
C5_BranchLocalVisited ==
    /\ \A k \in 1..Len(out) :
          out[k].ev = "circular" => out[k].id \in BranchAt(k)
    /\ (pc = "done" /\ trace_components = DiamondFile
            /\ trace_args = Recursive(3)) =>
          /\ Cardinality({k \in 1..Len(out) :
                            out[k] = Event("expand", "D", 2)}) = 2
          /\ \A k \in 1..Len(out) : out[k].ev # "circular"

C5_Witness ==
    /\ pc = "done"
    /\ trace_components = DiamondFile
    /\ trace_args = Recursive(3)
    /\ AncestorAt(Len(out) - 1, 1) = "C"
    /\ out[Len(out) - 1] = Event("expand", "D", 2)
    /\ \E k \in 1..(Len(out) - 2) :
          out[k] = Event("expand", "D", 2) /\ AncestorAt(k, 1) = "B"


\* C26: for every matched component and every expanded dependency whose
\* http_method is not populated (no entry, or the null entry the analyze
\* command writes), the "HTTP Method:" line shows the text N/A.
C26_HttpMethodNotAvailable ==
    \A k \in 1..Len(http_lines) :
        trace_components[http_lines[k].id].http_method \in {"<absent>", "<null>"}
        => http_lines[k].text = "N/A"

-----------------------------------------------------------------------------
(* visualize: visualize_results *)

\* Bounds of the results file visualize reads.
MaxVizComps == 3
MaxVizDeps == 2

\* Ids are strings of characters: "m.f", "g", "m.k.h", and the id "x.y" that
\* no component has.
IdF == <<"m", ".", "f">>
IdG == <<"g">>
IdH == <<"m", ".", "k", ".", "h">>
IdX == <<"x", ".", "y">>
VizKeyPool == {IdF, IdG, IdH}
VizDepPool == {IdF, IdG, IdX}

\* One entry of results["components"]: the key and the depends_on list that
\* model_dump wrote (no id twice).
VizEntries ==
    {[id |-> k, depends_on |-> l] :
        k \in VizKeyPool,
        l \in {m \in SeqsUpTo(VizDepPool, MaxVizDeps) :
                  Cardinality(Range(m)) = Len(m)}}

\* The JSON object in file order: no key twice.
VizFiles ==
    {f \in SeqsUpTo(VizEntries, MaxVizComps) :
        \A i, j \in 1..Len(f) : f[i].id = f[j].id => i = j}

\* str.split('.')
RECURSIVE SplitDot(_)
SplitDot(str) ==
    IF "." \notin Range(str) THEN <<str>>
    ELSE LET i == CHOOSE n \in 1..Len(str) :
                    str[n] = "." /\ \A m \in 1..(n - 1) : str[m] # "."
         IN  <<SubSeq(str, 1, i - 1)>> \o SplitDot(SubSeq(str, i + 1, Len(str)))

\* comp_id.split('.')[-1] if '.' in comp_id else comp_id
LabelFirstSegment(comp_id) ==
    IF "." \in Range(comp_id) THEN SplitDot(comp_id)[1] ELSE comp_id
Label(comp_id) ==
    IF "." \in Range(comp_id)
    THEN SplitDot(comp_id)[Len(SplitDot(comp_id))]
    ELSE comp_id

\* A line of the DOT text.
Stmt(kind, a, b) == [kind |-> kind, a |-> a, b |-> b]

\* The relationships of one component, in the order of its depends_on.
EdgesOfEntry(entry) ==
    [i \in 1..Len(entry.depends_on) |->
        [caller |-> entry.id, callee |-> entry.depends_on[i]]]

\* "Extract relationships from components"
RECURSIVE ExtractRelationships(_)
ExtractRelationships(comps) ==
    IF comps = <<>> THEN <<>>
    ELSE EdgesOfEntry(Head(comps)) \o ExtractRelationships(Tail(comps))

\* connected_nodes
ConnectedCallersOnly(rels) == {rels[i].caller : i \in 1..Len(rels)}
ConnectedNodes(rels) ==
    {rels[i].caller : i \in 1..Len(rels)}
        \cup {rels[i].callee : i \in 1..Len(rels)}

\* The node statements, in the order of components.keys().
RECURSIVE NodeStatements(_, _, _)
NodeStatements(comps, connected, filter_empty_nodes) ==
    IF comps = <<>> THEN <<>>
    ELSE LET comp_id == Head(comps).id
             rest == NodeStatements(Tail(comps), connected, filter_empty_nodes)
         IN  IF filter_empty_nodes /\ comp_id \notin connected
             THEN rest
             ELSE <<Stmt("node", comp_id, Label(comp_id))>> \o rest

EdgeStatements(rels) ==
    [i \in 1..Len(rels) |-> Stmt("edge", rels[i].caller, rels[i].callee)]

\* dot_content
DotContent(comps, filter_empty_nodes) ==
    LET rels == ExtractRelationships(comps)
    IN  <<Stmt("digraph", <<>>, <<>>)>>
            \o NodeStatements(comps, ConnectedNodes(rels), filter_empty_nodes)
            \o EdgeStatements(rels)
            \o <<Stmt("close", <<>>, <<>>)>>

VizStart ==
    /\ viz_components \in VizFiles
    /\ dot = [f \in BOOLEAN |-> <<>>]

\* visualize on the file, with or without --filter-empty-node.
VisualizeResults(filter_empty_nodes) ==
    /\ dot[filter_empty_nodes] = <<>>
    /\ dot' = [dot EXCEPT ![filter_empty_nodes] =
                              DotContent(viz_components, filter_empty_nodes)]
    /\ UNCHANGED viz_components
    /\ UNCHANGED notViz

VisualizePlain == VisualizeResults(FALSE)
VisualizeFiltered == VisualizeResults(TRUE)

VizNext == VisualizePlain \/ VisualizeFiltered

-----------------------------------------------------------------------------
(* Properties of visualize *)

VizIds == {viz_components[i].id : i \in 1..Len(viz_components)}

\* The pairs (component id, id in its depends_on).
VizPairs ==
    UNION {{<<viz_components[i].id, d>> : d \in Range(viz_components[i].depends_on)}
              : i \in 1..Len(viz_components)}

Lines(text, kind) == {i \in 1..Len(text) : text[i].kind = kind}
NodeIds(text) == {text[i].a : i \in Lines(text, "node")}

\* The text after the last '.' of an id, the whole id when it has none.
AfterLastDot(id) ==
    LET dots == {i \in 1..Len(id) : id[i] = "."}
    IN  IF dots = {} THEN id
        ELSE SubSeq(id, (CHOOSE i \in dots : \A j \in dots : j <= i) + 1, Len(id))

\* C6: with --filter-empty-node a component has a node statement if and only
\* if its id is the first or the second member of some pair (component,
\* dependency); without the flag every component has one; and the edge
\* statements of the two outputs for one file are the same.
C6_FilterEmptyNode ==
    /\ dot[TRUE] # <<>> =>
          NodeIds(dot[TRUE]) =
              {c \in VizIds : \E pr \in VizPairs : pr[1] = c \/ pr[2] = c}
    /\ dot[FALSE] # <<>> => NodeIds(dot[FALSE]) = VizIds
    /\ (dot[TRUE] # <<>> /\ dot[FALSE] # <<>>) =>
          SelectSeq(dot[TRUE], LAMBDA st : st.kind = "edge")
              = SelectSeq(dot[FALSE], LAMBDA st : st.kind = "edge")

\* "g" is only a callee, "m.k.h" is in no relationship: the filtered text
\* keeps "g" and drops "m.k.h", the plain text has both, and both have the
\* edge.
C6_Witness ==
    /\ dot[TRUE] # <<>>
    /\ dot[FALSE] # <<>>
    /\ VizIds = {IdG, IdH, IdF}
    /\ VizPairs = {<<IdF, IdG>>}
    /\ NodeIds(dot[TRUE]) = {IdF, IdG}
    /\ IdH \in NodeIds(dot[FALSE])
    /\ Lines(dot[TRUE], "edge") # {}

\* C7: the DOT text has exactly one edge statement for every pair (component
\* id, id in its depends_on), also when the second id is no component, and no
\* other edge statement; without the flag it has exactly one node statement
\* for every component and none for anything else, labelled with the text
\* after the last '.' of the id; and every node statement comes before every
\* edge statement.
C7_OneStatementEach ==
    \A f \in BOOLEAN :
        dot[f] # <<>> =>
            LET text == dot[f]
            IN  /\ \A pr \in VizPairs :
                      Cardinality({i \in Lines(text, "edge") :
                                      text[i].a = pr[1] /\ text[i].b = pr[2]}) = 1
                /\ \A i \in Lines(text, "edge") :
                      <<text[i].a, text[i].b>> \in VizPairs
                /\ ~f => \A c \in VizIds :
                            Cardinality({i \in Lines(text, "node") :
                                            text[i].a = c}) = 1
                /\ \A i \in Lines(text, "node") :
                      text[i].a \in VizIds /\ text[i].b = AfterLastDot(text[i].a)
                /\ \A i \in Lines(text, "node"), j \in Lines(text, "edge") : i < j

\* "m.k.h" is labelled "h", "g" is labelled "g", and the edge to the unknown
\* "x.y" is written.
C7_Witness ==
    /\ dot[FALSE] # <<>>
    /\ Stmt("node", IdH, <<"h">>) \in Range(dot[FALSE])
    /\ Stmt("node", IdG, <<"g">>) \in Range(dot[FALSE])
    /\ Stmt("edge", IdH, IdX) \in Range(dot[FALSE])
    /\ Stmt("edge", IdH, IdG) \in Range(dot[FALSE])


-----------------------------------------------------------------------------
(* search-func: search_function_calls_keyword, find_call_paths_to_component
   and find_single_path *)

\* Largest --max-depth the model passes to search-func.
MaxSearchDepth == 3

\* str.lower() on the strings of the model.
Lower(str) ==
    CASE str = "A" -> "a" [] str = "B" -> "b" [] str = "C" -> "c"
      [] str = "D" -> "d" [] str = "Controller" -> "controller"
      [] OTHER -> str

\* "sub in str": the ids and names of the model are single letters, the types
\* are "Controller" and "method", and the needles are single letters, "zz"
\* and "controller"; on these a needle occurs in a string exactly when the
\* two are equal.
Occurs(sub, str) == sub = str

\* The results files of search-func: the depends_on lists of the files above,
\* every name equal to the id, A and C controllers or plain methods.
SearchFile(a, b, c, d, typeA, typeC) ==
    [k \in Range(TraceKeys) |->
        [depends_on |-> CASE k = "A" -> a [] k = "B" -> b
                          [] k = "C" -> c [] OTHER -> d,
         name |-> k,
         component_type |-> CASE k = "A" -> typeA [] k = "C" -> typeC
                              [] OTHER -> "method"]]

SearchFiles ==
    UNION {
        {SearchFile(a, b, c, d, typeA, typeC) :
            a \in SetToList(Successors(edges, "A")),
            b \in SetToList(Successors(edges, "B")),
            c \in SetToList(Successors(edges, "C")),
            d \in SetToList(Successors(edges, "D")),
            typeA \in {"Controller", "method"},
            typeC \in {"Controller", "method"}}
        : edges \in SUBSET CandidateEdges}

\* if depth > max_depth
DepthExceededEarly(depth, max_depth) == depth >= max_depth
DepthExceededNever(depth, max_depth) == FALSE
DepthExceeded(depth, max_depth) == depth > max_depth

\* The inner dfs of find_single_path; None is the empty list (no path dfs
\* returns is empty). visited is the set the call was handed: each call gets
\* its own copy.
RECURSIVE Dfs(_, _, _, _, _, _)
RECURSIVE DfsLoop(_, _, _, _, _, _)
Dfs(current_id, target, visited, path, depth, max_depth) ==
    IF DepthExceeded(depth, max_depth) THEN <<>>
    ELSE IF current_id = target THEN Append(path, current_id)
    ELSE IF current_id \in visited THEN <<>>
    ELSE IF current_id \in DOMAIN search_components
         THEN DfsLoop(search_components[current_id].depends_on, target,
                      visited \cup {current_id}, Append(path, current_id),
                      depth, max_depth)
         ELSE <<>>

\* for next_id in depends_on: the first result that is a path.
DfsLoop(depends_on, target, visited, path, depth, max_depth) ==
    IF depends_on = <<>> THEN <<>>
    ELSE LET result == Dfs(Head(depends_on), target, visited, path,
                           depth + 1, max_depth)
         IN  IF result # <<>> THEN result
             ELSE DfsLoop(Tail(depends_on), target, visited, path,
                          depth, max_depth)

FindSinglePath(start_component_id, target_component_id, max_depth) ==
    Dfs(start_component_id, target_component_id, {}, <<>>, 0, max_depth)

\* The controllers of find_call_paths_to_component, in file order.
IsControllerEntry(comp_id) ==
    \/ Occurs("controller", Lower(search_components[comp_id].component_type))
    \/ Occurs("controller", Lower(search_components[comp_id].name))
    \/ Occurs("controller", Lower(comp_id))

Controllers == SelectSeq(TraceKeys, IsControllerEntry)

\* all_paths: the paths found, one controller after the other.
RECURSIVE PathsFrom(_, _, _)
PathsFrom(controllers, target, max_depth) ==
    IF controllers = <<>> THEN <<>>
    ELSE LET path == FindSinglePath(Head(controllers), target, max_depth)
             rest == PathsFrom(Tail(controllers), target, max_depth)
         IN  IF path # <<>> THEN <<path>> \o rest ELSE rest

FindCallPathsToComponent(target, max_depth) ==
    PathsFrom(Controllers, target, max_depth)

\* The components the keyword matches, in file order.
KeywordMatches(comp_id) ==
    \/ Occurs(Lower(search_args.keyword), Lower(search_components[comp_id].name))
    \/ Occurs(Lower(search_args.keyword), Lower(comp_id))

\* What is printed for one target: the paths, or the component's details;
\* printing a path looks every id of it up in components.
Report(target) ==
    LET paths == FindCallPathsToComponent(target, search_args.max_depth)
    IN  [target |-> target,
         paths |-> paths,
         details |-> paths = <<>>,
         raised |-> \E i \in 1..Len(paths) :
                       \E j \in 1..Len(paths[i]) :
                           paths[i][j] \notin DOMAIN search_components]

SearchStart ==
    /\ search_components \in SearchFiles
    /\ search_args \in [keyword : {"c", "D", "zz"}, max_depth : 0..MaxSearchDepth]
    /\ search_out = <<>>

\* search-func when the keyword matches no component.
SearchNoMatch ==
    /\ search_out = <<>>
    /\ SelectSeq(TraceKeys, KeywordMatches) = <<>>
    /\ search_out' = <<[target |-> "", paths |-> <<>>, details |-> FALSE,
                        raised |-> FALSE]>>
    /\ UNCHANGED <<search_components, search_args>>
    /\ UNCHANGED notSearch

\* search-func when it does: one report per matching component.
SearchFunctionCallsKeyword ==
    /\ search_out = <<>>
    /\ SelectSeq(TraceKeys, KeywordMatches) # <<>>
    /\ LET matching_components == SelectSeq(TraceKeys, KeywordMatches)
       IN  search_out' = [i \in 1..Len(matching_components) |->
                             Report(matching_components[i])]
    /\ UNCHANGED <<search_components, search_args>>
    /\ UNCHANGED notSearch

SearchNext == SearchNoMatch \/ SearchFunctionCallsKeyword

-----------------------------------------------------------------------------
(* Properties of search-func *)

SearchKeys == DOMAIN search_components

\* The ids at exactly k depends_on hops from start along known components.
RECURSIVE HopsFrom(_, _)
HopsFrom(start, k) ==
    IF k = 0 THEN {start}
    ELSE UNION {Range(search_components[c].depends_on) :
                   c \in HopsFrom(start, k - 1) \cap SearchKeys}

ReachableWithin(start, target, n) ==
    \E k \in 0..n : target \in HopsFrom(start, k)

\* C8: for every component the keyword matches, the paths printed are one
\* for each controller from which the component can be reached along
\* depends_on edges through known components in at most max_depth hops, and
\* none for any other controller; when no controller yields a path, the
\* component's details are printed instead, and only then.
C8_PathIffReachable ==
    \A i \in 1..Len(search_out) :
        LET rep == search_out[i]
            found == {rep.paths[j][1] : j \in 1..Len(rep.paths)}
        IN  rep.target # "" =>
                /\ found = {c \in SearchKeys :
                              /\ search_components[c].component_type = "Controller"
                              /\ ReachableWithin(c, rep.target,
                                                 search_args.max_depth)}
                /\ Cardinality(found) = Len(rep.paths)
                /\ rep.details <=> (rep.paths = <<>>)

\* D is reached from A in exactly max_depth = 2 hops by the second branch,
\* after the first branch A -> B -> C ran into the bound at D; no path from
\* the controller C is missing either.
C8_Witness ==
    /\ search_out # <<>>
    /\ search_args = [keyword |-> "D", max_depth |-> 2]
    /\ search_components["A"].depends_on = <<"B", "C">>
    /\ search_components["B"].depends_on = <<"C">>
    /\ search_components["C"].depends_on = <<"D">>
    /\ search_components["A"].component_type = "Controller"
    /\ search_out[1].target = "D"
    /\ <<"A", "C", "D">> \in Range(search_out[1].paths)

\* C28: every path search-func prints starts at a controller, ends at the
\* matched component, links each consecutive pair by a depends_on membership,
\* repeats no id, has at most max_depth + 1 elements and holds only keys of
\* the component map, so that printing it looks up no dangling id.
C28_PathsWellFormed ==
    \A i \in 1..Len(search_out) :
        LET rep == search_out[i] IN
        /\ ~rep.raised
        /\ \A j \in 1..Len(rep.paths) :
              LET path == rep.paths[j] IN
              /\ path # <<>>
              /\ Len(path) <= search_args.max_depth + 1
              /\ \A k \in 1..Len(path) : path[k] \in SearchKeys
              /\ IsControllerEntry(path[1])
              /\ path[Len(path)] = rep.target
              /\ \A k \in 1..(Len(path) - 1) :
                    path[k + 1] \in Range(search_components[path[k]].depends_on)
              /\ \A k, l \in 1..Len(path) : path[k] = path[l] => k = l

\* The path A, B, C, D was printed at max_depth = 3 although C also depends
\* on X, an id that no component has.
C28_Witness ==
    /\ search_out # <<>>
    /\ search_args.max_depth = 3
    /\ "X" \in Range(search_components["C"].depends_on)
    /\ \E i \in 1..Len(search_out) :
          <<"A", "B", "C", "D">> \in Range(search_out[i].paths)


-----------------------------------------------------------------------------
(* Repository structure scanner: RepoAnalyzer *)

\* Most entries a repository of the model holds.
MaxEntries == 4

\* Names and patterns are strings of characters.
NodeModules == <<"n", "o", "d", "e", "_", "m", "o", "d", "u", "l", "e", "s">>
PyCache == <<"_", "_", "p", "y", "c", "a", "c", "h", "e", "_", "_">>
DotGit == <<".", "g", "i", "t">>
DotSvn == <<".", "s", "v", "n">>
DotHg == <<".", "h", "g">>
Dist == <<"d", "i", "s", "t">>
Build == <<"b", "u", "i", "l", "d">>
DotVscode == <<".", "v", "s", "c", "o", "d", "e">>
DotIdea == <<".", "i", "d", "e", "a">>
StarLog == <<"*", ".", "l", "o", "g">>
StarTmp == <<"*", ".", "t", "m", "p">>
Slash == <<"/">>
Repo == <<"r", "e", "p", "o">>
Src == <<"s", "r", "c">>
FileAC == <<"a", ".", "c">>
FileXLog == <<"x", ".", "l", "o", "g">>
Readme == <<"R", "E", "A", "D", "M", "E">>
Sock == <<"s", "o", "c", "k">>
StarC == <<"*", ".", "c">>

\* The default exclude_patterns of RepoAnalyzer.__init__.
DefaultExcludePatterns ==
    <<NodeModules, PyCache, DotGit, DotSvn, DotHg, Dist, Build, DotVscode,
      DotIdea, StarLog, StarTmp>>

\* exclude_patterns or [defaults]: None and the empty list give the defaults.
EffectiveExclude(given) ==
    IF given = <<>> THEN DefaultExcludePatterns ELSE given

\* fnmatch.fnmatch(name, pattern) on a POSIX system (no case folding), for
\* patterns made of literal characters, '*' and '?'.
RECURSIVE FnMatch(_, _)
FnMatch(name, pattern) ==
    IF pattern = <<>> THEN name = <<>>
    ELSE IF Head(pattern) = "*"
         THEN \/ FnMatch(name, Tail(pattern))
              \/ name # <<>> /\ FnMatch(Tail(name), pattern)
    ELSE IF name = <<>> THEN FALSE
    ELSE /\ Head(pattern) = "?" \/ Head(pattern) = Head(name)
         /\ FnMatch(Tail(name), Tail(pattern))

\* _matches_pattern
MatchesPattern(name, patterns) ==
    \E i \in 1..Len(patterns) : FnMatch(name, patterns[i])

Last(path) == path[Len(path)]
Parent(path) == SubSeq(path, 1, Len(path) - 1)

\* _should_exclude: any part of the path, then the bare name.
ShouldExcludeByName(path) == MatchesPattern(Last(path), exclude_patterns)
ShouldExclude(path) ==
    \/ \E i \in 1..Len(path) : MatchesPattern(path[i], exclude_patterns)
    \/ MatchesPattern(Last(path), exclude_patterns)

\* The include test of a file: passed when there are no include patterns.
Included(name) ==
    include_patterns # <<>> =>
        \E i \in 1..Len(include_patterns) :
            MatchesPattern(name, <<include_patterns[i]>>)

\* An entry of the repository: its path below the root and what it is
\* ("other": neither a regular file nor a directory).
Entry(rel, type) == [rel |-> rel, type |-> type]

\* Whether the loop of _scan_directory appends the item at full path `path`.
KeepsIncludedFirst(path, type) ==
    \/ type = "file" /\ include_patterns # <<>> /\ Included(Last(path))
    \/ ~ShouldExclude(path) /\ (type = "dir" \/ (type = "file" /\ Included(Last(path))))
Keeps(path, type) ==
    /\ ~ShouldExclude(path)
    /\ \/ type = "file" /\ Included(Last(path))
       \/ type = "dir"

\* The entries every repository of the model is drawn from.
CandidateEntries ==
    {Entry(<<Src>>, "dir"), Entry(<<Src, FileAC>>, "file"),
     Entry(<<Src, NodeModules>>, "dir"),
     Entry(<<Src, NodeModules, FileAC>>, "file"),
     Entry(<<NodeModules>>, "dir"), Entry(<<NodeModules, FileAC>>, "file"),
     Entry(<<FileAC>>, "file"), Entry(<<FileXLog>>, "file"),
     Entry(<<Readme>>, "file"), Entry(<<Sock>>, "other")}

\* A repository: every entry lies in a directory of the repository.
Repositories ==
    {r \in SUBSET CandidateEntries :
        /\ Cardinality(r) <= MaxEntries
        /\ \A e \in r : Len(e.rel) > 1 => Entry(Parent(e.rel), "dir") \in r}

\* directory.iterdir(): the items in the order the system lists them.
RECURSIVE Listing(_)
Listing(items) ==
    IF items = {} THEN <<>>
    ELSE LET item == CHOOSE x \in items : TRUE
         IN  <<item>> \o Listing(items \ {item})

\* _scan_directory of the directory at `rel` below the root. A refused
\* listing (PermissionError) leaves the directory without children. Of a
\* file's entry only type, name and path are kept here.
RECURSIVE ScanDirectory(_)
ScanDirectory(rel) ==
    LET items == IF rel \in denied THEN {}
                 ELSE {e \in fs : Parent(e.rel) = rel}
        kept == Listing({e \in items : Keeps(scan_root \o e.rel, e.type)})
    IN  [type |-> "directory",
         name |-> Last(scan_root \o rel),
         path |-> scan_root \o rel,
         children |->
            [i \in 1..Len(kept) |->
                IF kept[i].type = "file"
                THEN [type |-> "file", name |-> Last(kept[i].rel),
                      path |-> scan_root \o kept[i].rel, children |-> <<>>]
                ELSE ScanDirectory(kept[i].rel)]]

\* _count_files
RECURSIVE CountFiles(_)
RECURSIVE SumFiles(_)
SumFiles(children) ==
    IF children = <<>> THEN 0
    ELSE CountFiles(Head(children)) + SumFiles(Tail(children))
CountFiles(tree) ==
    IF tree.type = "file" THEN 1 ELSE SumFiles(tree.children)

NoTree == [type |-> "none", name |-> <<>>, path |-> <<>>, children |-> <<>>]

ScanStart ==
    /\ fs \in Repositories
    /\ denied \in {{}, {<<Src>>}}
    /\ scan_root \in {<<Slash, Repo>>, <<Slash, Build, Repo>>}
    /\ include_patterns \in {<<>>, <<StarC>>, <<StarC, StarLog>>}
    /\ exclude_patterns \in {EffectiveExclude(<<>>), EffectiveExclude(<<Src>>)}
    /\ file_tree = NoTree
    /\ total_files = 0
    /\ scanned = FALSE

\* analyze_repository_structure
AnalyzeRepositoryStructure ==
    /\ ~scanned
    /\ file_tree' = ScanDirectory(<<>>)
    /\ total_files' = CountFiles(ScanDirectory(<<>>))
    /\ scanned' = TRUE
    /\ UNCHANGED <<fs, denied, scan_root, include_patterns, exclude_patterns>>
    /\ UNCHANGED notScan

ScanNext == AnalyzeRepositoryStructure

-----------------------------------------------------------------------------
(* Properties of the scanner *)

\* The directories and files of a tree, the root included.
RECURSIVE TreeNodes(_)
TreeNodes(tree) ==
    {[path |-> tree.path, type |-> tree.type]}
        \cup UNION {TreeNodes(tree.children[i]) : i \in 1..Len(tree.children)}

RootNode == [path |-> scan_root, type |-> "directory"]

HasExcludedSegment(path) ==
    \E i \in 1..Len(path) : MatchesPattern(path[i], exclude_patterns)

\* A directory of the repository that the scan can reach whatever the
\* include patterns are: no segment of its path matches an exclude glob and
\* the listing of none of its ancestors is refused.
ReachableDir(e) ==
    /\ e.type = "dir"
    /\ ~HasExcludedSegment(scan_root \o e.rel)
    /\ \A k \in 0..(Len(e.rel) - 1) : SubSeq(e.rel, 1, k) \notin denied

FilesMatchInclude(shown) ==
    \A n \in shown :
        (n.type = "file" /\ include_patterns # <<>>) =>
            MatchesPattern(Last(n.path), include_patterns)

DirectoriesIgnoreInclude(shown) ==
    \A e \in fs :
        ReachableDir(e) =>
            [path |-> scan_root \o e.rel, type |-> "directory"] \in shown

\* C9 as stated: nothing in the file tree, the root directory included, has
\* a path segment that matches an exclude glob.
C9_NothingExcludedInTree ==
    scanned =>
        /\ \A n \in TreeNodes(file_tree) : ~HasExcludedSegment(n.path)
        /\ FilesMatchInclude(TreeNodes(file_tree))
        /\ DirectoriesIgnoreInclude(TreeNodes(file_tree))

\* C9 (amended): no file or directory other than the scanned root itself
\* appears in the file tree when a segment of its path matches an exclude
\* glob, also when its name matches an include pattern; directories are not
\* filtered by include patterns; and with a non-empty include list every
\* file of the tree matches an include pattern.
C9_NothingExcludedBelowRoot ==
    scanned =>
        /\ \A n \in TreeNodes(file_tree) \ {RootNode} :
              ~HasExcludedSegment(n.path)
        /\ FilesMatchInclude(TreeNodes(file_tree))
        /\ DirectoriesIgnoreInclude(TreeNodes(file_tree))

\* node_modules/a.c and x.log match the include patterns and are left out;
\* a.c is in the tree.
C9_Witness ==
    /\ scanned
    /\ scan_root = <<Slash, Repo>>
    /\ include_patterns = <<StarC, StarLog>>
    /\ exclude_patterns = DefaultExcludePatterns
    /\ {Entry(<<NodeModules>>, "dir"), Entry(<<NodeModules, FileAC>>, "file"),
        Entry(<<FileAC>>, "file"), Entry(<<FileXLog>>, "file")} \subseteq fs
    /\ TreeNodes(file_tree) =
          {RootNode, [path |-> <<Slash, Repo, FileAC>>, type |-> "file"]}
    /\ total_files = 1

\* C30: the exclude test covers the segments of the repository root path
\* too: when a segment of the root path matches an exclude glob in force,
\* every entry is excluded and the result is the root directory, scanned all
\* the same, with no children and total_files = 0.
C30_ExcludedRootSegment ==
    (scanned /\ HasExcludedSegment(scan_root)) =>
        /\ file_tree.type = "directory"
        /\ file_tree.path = scan_root
        /\ file_tree.children = <<>>
        /\ TreeNodes(file_tree) = {RootNode}
        /\ total_files = 0

\* The repository /build/repo holds a.c and src/a.c, readable and matching
\* no default glob by name; scanned with the defaults it comes out empty.
C30_Witness ==
    /\ scanned
    /\ scan_root = <<Slash, Build, Repo>>
    /\ exclude_patterns = DefaultExcludePatterns
    /\ include_patterns = <<>>
    /\ denied = {}
    /\ {Entry(<<FileAC>>, "file"), Entry(<<Src>>, "dir"),
        Entry(<<Src, FileAC>>, "file")} \subseteq fs
    /\ file_tree.children = <<>>
    /\ total_files = 0

\* C27: the exclude patterns given by the caller are additional: an entry
\* whose name matches a default exclude glob is left out of the file tree
\* also when a custom exclude list is in force, like an entry whose name
\* matches a custom pattern.
C27_DefaultExcludesStillApply ==
    scanned =>
        \A n \in TreeNodes(file_tree) \ {RootNode} :
            /\ ~MatchesPattern(Last(n.path), DefaultExcludePatterns)
            /\ ~MatchesPattern(Last(n.path), exclude_patterns)

-----------------------------------------------------------------------------
(* Java analyzer: the nodes of a file and their api_url *)

\* Most characters of a route string of the model.
MaxPathLen == 2

PathChars == {"/", "a"}
RoutePaths == SeqsUpTo(PathChars, MaxPathLen)

\* Python's None where a string is expected.
NoUrl == <<"None">>

\* `if url`: None and "" are false.
Truthy(url) == url # NoUrl /\ url # <<>>

\* A type declaration of a Java file, reduced to what _extract_nodes reads:
\* its simple name (as words), its node type, whether its modifiers carry
\* @Controller or @RestController, the string argument of its mapping
\* annotation (NoUrl without one) and, for each method it declares, the string
\* argument of the method's mapping annotation (NoUrl without one).
JavaDecl(name, kind, stereotype, mapping, methods) ==
    [name |-> name, kind |-> kind, stereotype |-> stereotype,
     mapping |-> mapping, methods |-> methods]

ClassNames == {<<"Svc">>, <<"User", "Controller">>}
DeclKinds == {"class_declaration", "interface_declaration"}

\* The declaration that holds a method.
MethodDecls ==
    {JavaDecl(n, k, s, q, <<p>>) :
        n \in ClassNames, k \in DeclKinds, s \in BOOLEAN,
        q \in RoutePaths \cup {NoUrl}, p \in RoutePaths \cup {NoUrl}}

\* A class declared earlier in the same file, nested in another type (two
\* nested classes of different outer types may have the same simple name).
EarlierDecls ==
    {JavaDecl(n, "class_declaration", s, q, <<>>) :
        n \in ClassNames, s \in BOOLEAN, q \in RoutePaths \cup {NoUrl}}

\* A file: its type declarations in the order the tree walk meets them.
JavaFiles == {<<d>> : d \in MethodDecls}
                \cup {<<e, d>> : e \in EarlierDecls, d \in MethodDecls}

\* 'Controller' in name or 'controller' in name
NameHasController(name) ==
    \E i \in 1..Len(name) : name[i] \in {"Controller", "controller"}

\* _find_class_node_by_name: the first class_declaration of that name the
\* depth-first search meets; 0 when there is none.
FindClassNodeByName(file, class_name) ==
    LET found == {i \in 1..Len(file) :
                    /\ file[i].kind = "class_declaration"
                    /\ file[i].name = class_name}
    IN  IF found = {} THEN 0 ELSE CHOOSE i \in found : \A k \in found : i <= k

\* _is_controller_class
IsControllerClass(class_node) == class_node.stereotype

\* _extract_path_prefix_from_class_annotations
ExtractPathPrefix(class_node) == class_node.mapping

\* _extract_api_url_from_annotations: the first annotation of the modifiers
\* whose url is not empty. (Annotations are children of the modifiers only, so
\* the search among the method's siblings finds none.)
ExtractApiUrl(route) == IF Truthy(route) THEN route ELSE NoUrl

\* The concatenation of the class prefix and the method's url.
CombineApiUrl(class_path_prefix, api_url) ==
    IF Last(class_path_prefix) = "/" /\ Head(api_url) = "/"
    THEN class_path_prefix \o Tail(api_url)
    ELSE IF Last(class_path_prefix) # "/" /\ Head(api_url) # "/"
    THEN class_path_prefix \o <<"/">> \o api_url
    ELSE class_path_prefix \o api_url

\* The api_url _extract_nodes gives the method of the declaration at index i.
MethodApiUrl(file, i, route) ==
    LET containing_class_name == file[i].name
        k == FindClassNodeByName(file, containing_class_name)
        annotated == k # 0 /\ IsControllerClass(file[k])
        class_path_prefix == IF k # 0 THEN ExtractPathPrefix(file[k]) ELSE NoUrl
        is_controller == annotated \/ NameHasController(containing_class_name)
        api_url == ExtractApiUrl(route)
    IN  IF ~is_controller THEN NoUrl
        ELSE IF Truthy(api_url) /\ Truthy(class_path_prefix)
        THEN CombineApiUrl(class_path_prefix, api_url)
        ELSE api_url

JavaTypeName(kind) ==
    IF kind = "class_declaration" THEN "class" ELSE "interface"

\* The nodes of the declaration at index i: the type (line 2i - 1), then its
\* methods (line 2i).
DeclNodes(file, i) ==
    <<[name |-> file[i].name, component_type |-> JavaTypeName(file[i].kind),
       start_line |-> 2 * i - 1, api_url |-> NoUrl]>>
    \o [j \in 1..Len(file[i].methods) |->
          [name |-> file[i].name \o <<".", "m">>, component_type |-> "method",
           start_line |-> 2 * i,
           api_url |-> MethodApiUrl(file, i, file[i].methods[j])]]

\* _extract_nodes over the whole tree.
RECURSIVE ExtractNodesFrom(_, _)
ExtractNodesFrom(file, i) ==
    IF i > Len(file) THEN <<>>
    ELSE DeclNodes(file, i) \o ExtractNodesFrom(file, i + 1)

\* _get_module_path and _get_component_id of the Java analyzer.
JavaModulePath == <<"j">>
JavaComponentId(name) == JavaModulePath \o <<".">> \o name

\* The body of the method: the types of its object creation expressions, all
\* on the line of the method.
JavaBodies ==
    {<<>>, <<"Repo">>, <<"Repo", "Repo">>, <<"String", "Repo">>}

\* _is_primitive_type, for the types of the model.
IsPrimitiveType(type_name) == type_name \in {"String", "Object", "int"}

\* _find_containing_class: the id of the nearest enclosing type whose name is
\* a key of top_level_nodes (every declared type is).
FindContainingClass(file, i) == JavaComponentId(file[i].name)

\* _extract_relationships at the object creation expressions of the method
\* of declaration i: each one is appended to call_relationships, the callee
\* being the text of the type identifier.
ObjectCreations(file, i, body) ==
    LET kept == SelectSeq(body, LAMBDA t : ~IsPrimitiveType(t))
    IN  [k \in 1..Len(kept) |->
            [caller |-> FindContainingClass(file, i), callee |-> <<kept[k]>>,
             call_line |-> 2 * i, is_resolved |-> FALSE]]

\* _extract_relationships over the whole tree: the method is in the last
\* declaration of the file.
JavaExtractRelationships(file, body) == ObjectCreations(file, Len(file), body)

JavaStart ==
    /\ java_file \in JavaFiles
    /\ java_body \in JavaBodies
    /\ java_too_deep \in BOOLEAN
    /\ java_nodes = <<>>
    /\ java_rels = <<>>
    /\ java_done = FALSE
    /\ java_outcome = "none"

\* analyze_java_file: the constructor runs _analyze, which walks the tree
\* with the recursive _extract_nodes and _extract_relationships. Nothing
\* between the walk and the caller catches an exception, so the
\* RecursionError of a walk deeper than the recursion limit leaves
\* analyze_java_file and the caller receives no lists.
AnalyzeJavaFile ==
    /\ ~java_done
    /\ IF java_too_deep
       THEN /\ java_outcome' = "RecursionError"
            /\ UNCHANGED <<java_nodes, java_rels>>
       ELSE /\ java_outcome' = "returned"
            /\ java_nodes' = ExtractNodesFrom(java_file, 1)
            /\ java_rels' = JavaExtractRelationships(java_file, java_body)
    /\ java_done' = TRUE
    /\ UNCHANGED <<java_file, java_body, java_too_deep>>
    /\ UNCHANGED notJava

JavaNext == AnalyzeJavaFile

-----------------------------------------------------------------------------
(* Properties of the Java analyzer *)

\* analyze_java_file returned its lists.
JavaAnalysed == java_done /\ java_outcome = "returned"

\* The node emitted for the method of the declaration at index i.
MethodNode(i) ==
    CHOOSE n \in Range(java_nodes) :
        n.component_type = "method" /\ n.start_line = 2 * i

\* q and p with exactly one '/' between them.
DropLastSlash(q) ==
    IF Last(q) = "/" THEN SubSeq(q, 1, Len(q) - 1) ELSE q
DropFirstSlash(p) == IF Head(p) = "/" THEN Tail(p) ELSE p
OneSlashJoin(q, p) == DropLastSlash(q) \o <<"/">> \o DropFirstSlash(p)

\* The declaration is a controller class by its own annotations or name.
IsController(d) ==
    /\ d.kind = "class_declaration"
    /\ d.stereotype \/ NameHasController(d.name)

\* C11: a controller method with a non-empty route p on a class with a
\* non-empty class-level prefix q has api_url = q and p joined with exactly one
\* '/' at the junction.
C11_PrefixJoinedWithOneSlash ==
    JavaAnalysed =>
        \A i \in 1..Len(java_file) :
            LET d == java_file[i] IN
            (/\ d.methods # <<>>
             /\ IsController(d)
             /\ Truthy(d.mapping)
             /\ Truthy(d.methods[1]))
            => MethodNode(i).api_url = OneSlashJoin(d.mapping, d.methods[1])

\* C12: a method whose containing class carries neither @Controller nor
\* @RestController and has no name containing "Controller" or "controller"
\* has no api_url, whatever the mapping annotations are.
C12_NoApiUrlOutsideControllers ==
    JavaAnalysed =>
        \A i \in 1..Len(java_file) :
            LET d == java_file[i] IN
            (/\ d.methods # <<>>
             /\ ~d.stereotype
             /\ ~NameHasController(d.name))
            => MethodNode(i).api_url = NoUrl

\* An id of the form <module_path>.<name>.
IsJavaComponentId(id) ==
    /\ Len(id) >= Len(JavaModulePath) + 2
    /\ SubSeq(id, 1, Len(JavaModulePath)) = JavaModulePath
    /\ id[Len(JavaModulePath) + 1] = "."

\* C23: every relationship the Java analyzer returns has a non-empty caller
\* and a callee that are both component ids <module_path>.<name>; the callee
\* of an object creation edge is module-qualified, not a bare type name.
C23_CalleeIsComponentId ==
    java_done =>
        \A i \in 1..Len(java_rels) :
            /\ java_rels[i].caller # <<>>
            /\ IsJavaComponentId(java_rels[i].caller)
            /\ IsJavaComponentId(java_rels[i].callee)

\* C21: analyze_java_file never raises: whatever happens while the file is
\* parsed and walked, the call returns its two lists.
C21_AnalyzeNeverRaises ==
    java_done => java_outcome = "returned"

\* C20: the relationship list the Java analyzer returns never contains two
\* relationships with the same (caller, callee, call_line) triple.
C20_NoDuplicateRelationship ==
    java_done =>
        \A i, j \in 1..Len(java_rels) :
            (/\ java_rels[i].caller = java_rels[j].caller
             /\ java_rels[i].callee = java_rels[j].callee
             /\ java_rels[i].call_line = java_rels[j].call_line) => i = j

-----------------------------------------------------------------------------
(* Grammar registry (setup_parser.py) and helpers shared by the analyzers *)

\* The grammar packages an installation may hold.
GrammarPackages ==
    {"python", "javascript", "typescript", "java", "cpp", "csharp", "php", "c"}

\* The installations of the model: nothing, everything, the C grammar only,
\* everything but the C grammar.
Installations ==
    {{}, GrammarPackages, {"c"}, GrammarPackages \ {"c"}}

\* setup_parsers: one entry per grammar it imports successfully. It imports
\* seven packages; the C grammar is not among them.
SetupParsers(installed) ==
    installed \cap
        {"python", "javascript", "typescript", "java", "cpp", "csharp", "php"}

\* get_parser(language) is not None
HasParser(parsers, language) == language \in parsers

\* nodes.sort(key=lambda n: n.start_line): a stable sort.
RECURSIVE InsertByLine(_, _)
InsertByLine(sorted, n) ==
    IF sorted = <<>> THEN <<n>>
    ELSE IF Last(sorted).start_line <= n.start_line THEN Append(sorted, n)
    ELSE Append(InsertByLine(SubSeq(sorted, 1, Len(sorted) - 1), n),
                Last(sorted))
RECURSIVE SortByStartLine(_)
SortByStartLine(ns) ==
    IF ns = <<>> THEN <<>>
    ELSE InsertByLine(SortByStartLine(SubSeq(ns, 1, Len(ns) - 1)), Last(ns))

\* _add_relationship over a list of candidate relationships, in order: a
\* relationship whose (caller, callee, call_line) was seen is dropped.
RelKey(r) == <<r.caller, r.callee, r.call_line>>
RECURSIVE AddRelationships(_, _)
AddRelationships(rels, candidates) ==
    IF candidates = <<>> THEN rels
    ELSE LET r == Head(candidates)
             seen == {RelKey(rels[i]) : i \in 1..Len(rels)}
         IN  AddRelationships(IF RelKey(r) \in seen THEN rels
                              ELSE Append(rels, r),
                              Tail(candidates))

-----------------------------------------------------------------------------
(* C analyzer: TreeSitterCAnalyzer *)

\* Most function definitions of a C file of the model.
MaxCFuncs == 3

CFuncNames == {"foo", "bar", "main"}

\* A function definition: its name and the names it calls, one call per
\* line of its body. The definition of index i is on line i.
CFuncs ==
    {[name |-> n, calls |-> c] :
        n \in CFuncNames, c \in {<<>>} \cup {<<m>> : m \in CFuncNames}}

\* A C file: function definitions with different names.
CFiles ==
    {f \in SeqsUpTo(CFuncs, MaxCFuncs) :
        \A i, j \in 1..Len(f) : f[i].name = f[j].name => i = j}

\* _get_module_path of the analysed file ("a.c") and _get_component_id
CModulePath == <<"a">>
CComponentId(name) == CModulePath \o <<".", name>>

\* _should_include_function of the C analyzer
CExcludedNames ==
    {"main", "printf", "scanf", "malloc", "free", "strlen", "strcpy",
     "strcmp", "atoi", "itoa", "exit", "assert", "fopen", "fclose", "fread",
     "fwrite", "fprintf", "fscanf", "puts", "gets", "abort"}
CShouldInclude(name) == name \notin CExcludedNames

CNode(name, line) ==
    [id |-> CComponentId(name), name |-> name, component_type |-> "function",
     start_line |-> line]

\* _traverse_for_functions: a function_definition gives a node, and so does
\* the function_declarator that is its child, met next by the walk.
RECURSIVE CTraverseForFunctions(_, _)
CTraverseForFunctions(file, i) ==
    IF i > Len(file) THEN <<>>
    ELSE (IF CShouldInclude(file[i].name)
          THEN <<CNode(file[i].name, i), CNode(file[i].name, i)>>
          ELSE <<>>)
         \o CTraverseForFunctions(file, i + 1)

\* _extract_functions
CExtractFunctions(file) == SortByStartLine(CTraverseForFunctions(file, 1))

\* self.top_level_nodes after _extract_functions: the names indexed.
CTopLevelNames(file) ==
    {file[i].name : i \in {k \in 1..Len(file) : CShouldInclude(file[k].name)}}

\* _traverse_for_calls: the calls of the definition at index i.
CCallsOf(file, i) ==
    [j \in 1..Len(file[i].calls) |->
        [caller |-> CComponentId(file[i].name),
         callee |-> CComponentId(file[i].calls[j]),
         call_line |-> i,
         is_resolved |-> file[i].calls[j] \in CTopLevelNames(file)]]

RECURSIVE CTraverseForCalls(_, _)
CTraverseForCalls(file, i) ==
    IF i > Len(file) THEN <<>>
    ELSE CCallsOf(file, i) \o CTraverseForCalls(file, i + 1)

\* _extract_call_relationships
CExtractCallRelationships(file) ==
    AddRelationships(<<>>, CTraverseForCalls(file, 1))

CStart ==
    /\ c_parsers \in {SetupParsers(inst) : inst \in Installations}
    /\ c_file \in CFiles
    /\ c_nodes = <<>>
    /\ c_rels = <<>>
    /\ c_done = FALSE

\* analyze_c_file: without a parser for "c" analyze() returns at once.
AnalyzeCFile ==
    /\ ~c_done
    /\ c_nodes' = IF HasParser(c_parsers, "c")
                  THEN CExtractFunctions(c_file) ELSE <<>>
    /\ c_rels' = IF HasParser(c_parsers, "c")
                 THEN CExtractCallRelationships(c_file) ELSE <<>>
    /\ c_done' = TRUE
    /\ UNCHANGED <<c_parsers, c_file>>
    /\ UNCHANGED notC

CNext == AnalyzeCFile

-----------------------------------------------------------------------------
(* Properties of the C analyzer *)

CDefined == {c_file[i].name : i \in 1..Len(c_file)}

CNodesNamed(name) == {i \in 1..Len(c_nodes) : c_nodes[i].name = name}

\* C13: analyze_c_file returns exactly one node per defined, non-excluded
\* function, a resolved relationship caller -> callee for each call of one
\* such function by another, and no node named main.
C13_OneNodePerFunction ==
    c_done =>
        /\ \A n \in CDefined \ CExcludedNames :
              Cardinality(CNodesNamed(n)) = 1
        /\ Len(c_nodes) = Cardinality(CDefined \ CExcludedNames)
        /\ \A i \in 1..Len(c_file) : \A j \in 1..Len(c_file[i].calls) :
              (/\ c_file[i].name \notin CExcludedNames
               /\ c_file[i].calls[j] \in CDefined \ CExcludedNames)
              => \E k \in 1..Len(c_rels) :
                    /\ c_rels[k].caller = CComponentId(c_file[i].name)
                    /\ c_rels[k].callee = CComponentId(c_file[i].calls[j])
                    /\ c_rels[k].is_resolved
        /\ CNodesNamed("main") = {}

-----------------------------------------------------------------------------
(* C++ analyzer: TreeSitterCppAnalyzer *)

\* Most members of the class and most base classes of a C++ file of the
\* model.
MaxCppMembers == 2
MaxCppBases == 1

\* Python's None where a list or a name is expected.
NoValue == <<"None">>

\* Names are sequences of tokens: "~Widget" is <<"~", "Widget">>.
CppClassName == <<"Widget">>
CppBaseNames == {<<"Base">>}

\* A member function defined in the class body: its name, the type of the
\* syntax node that holds the name in its function_declarator, and the
\* functions its body calls, all on the member's line.
CppMembers ==
    {[name |-> n.name, name_node |-> n.name_node, calls |-> c] :
        n \in {[name |-> <<"Widget">>, name_node |-> "identifier"],
               [name |-> <<"~", "Widget">>, name_node |-> "destructor_name"],
               [name |-> <<"draw">>, name_node |-> "identifier"],
               [name |-> <<"draw">>, name_node |-> "field_identifier"]},
        c \in {<<>>, <<<<"helper">>>>, <<<<"helper">>, <<"helper">>>>}}

\* A C++ file: the class (line 1), its members (lines 2, 3, ...) and, when
\* has_helper, a free function helper after the class.
CppFiles ==
    {[bases |-> b, members |-> m, has_helper |-> h] :
        b \in SeqsUpTo(CppBaseNames, MaxCppBases),
        m \in SeqsUpTo(CppMembers, MaxCppMembers),
        h \in BOOLEAN}

CppModulePath == <<"w">>

\* _get_component_id
CppComponentId(name, class_name, is_method) ==
    IF is_method /\ class_name # NoValue
    THEN CppModulePath \o <<".">> \o class_name \o <<".">> \o name
    ELSE CppModulePath \o <<".">> \o name

\* _should_include_function of the C++ analyzer; the names of the model do
\* not start with "operator".
CppExcludedNames == CExcludedNames \cup {"cout", "cin", "cerr"}
CppShouldInclude(name) == ~(Len(name) = 1 /\ name[1] \in CppExcludedNames)

\* _extract_function_name of a function_declarator: the text of its
\* identifier child, None when the name is held by another type of node.
CppExtractFunctionName(member) ==
    IF member.name_node = "identifier" THEN member.name ELSE NoValue

CppNodeNameAsComponentId(name, class_name, node_type, base_classes, line) ==
    [id |-> CppComponentId(name, class_name,
                           node_type \in {"method", "constructor", "destructor"}),
     component_id |-> name,
     name |-> name, component_type |-> node_type, node_type |-> node_type,
     base_classes |-> base_classes, class_name |-> class_name,
     start_line |-> line]
CppNode(name, class_name, node_type, base_classes, line) ==
    [id |-> CppComponentId(name, class_name,
                           node_type \in {"method", "constructor", "destructor"}),
     component_id |-> CppComponentId(name, class_name,
                           node_type \in {"method", "constructor", "destructor"}),
     name |-> name, component_type |-> node_type, node_type |-> node_type,
     base_classes |-> base_classes, class_name |-> class_name,
     start_line |-> line]

\* _extract_class_declaration
CppExtractClassDeclaration(file) ==
    CppNode(CppClassName, NoValue, "class",
            IF file.bases # <<>> THEN file.bases ELSE NoValue, 1)

\* The constructor/destructor/method classification of
\* _extract_function_definition, for a definition inside containing_class.
CppClassify(name, containing_class) ==
    IF name = containing_class THEN "constructor"
    ELSE IF Head(name) = "~" /\ Tail(name) = containing_class THEN "destructor"
    ELSE "method"

\* _extract_function_definition
CppExtractFunctionDefinition(name, containing_class, line) ==
    IF containing_class = NoValue
    THEN CppNode(name, NoValue, "function", NoValue, line)
    ELSE CppNode(name, containing_class,
                 CppClassify(name, containing_class), NoValue, line)

\* _extract_function_declaration
CppExtractFunctionDeclaration(name, line) ==
    CppNode(name, NoValue, "function", NoValue, line)

\* _traverse_for_functions at a function_definition and, next, at the
\* function_declarator that is its child. The definition is extracted only
\* when it is outside every class (containing_class is None).
CppFunctionNodes(name, declared, containing_class, line) ==
    (IF containing_class = NoValue /\ declared # NoValue
        /\ CppShouldInclude(declared)
     THEN <<CppExtractFunctionDefinition(declared, NoValue, line)>>
     ELSE <<>>)
    \o (IF declared # NoValue /\ CppShouldInclude(declared)
        THEN <<CppExtractFunctionDeclaration(declared, line)>>
        ELSE <<>>)

RECURSIVE CppMemberNodes(_, _)
CppMemberNodes(file, j) ==
    IF j > Len(file.members) THEN <<>>
    ELSE CppFunctionNodes(file.members[j].name,
                          CppExtractFunctionName(file.members[j]),
                          CppClassName, j + 1)
         \o CppMemberNodes(file, j + 1)

\* _traverse_for_functions over the file. (_extract_methods_from_class looks
\* for definitions among the children of the class_specifier, where there is
\* only the field_declaration_list, and it adds to no list of nodes.)
CppTraverseForFunctions(file) ==
    <<CppExtractClassDeclaration(file)>>
    \o CppMemberNodes(file, 1)
    \o (IF file.has_helper
        THEN CppFunctionNodes(<<"helper">>, <<"helper">>, NoValue,
                              Len(file.members) + 2)
        ELSE <<>>)

\* _extract_functions
CppExtractFunctions(file) == SortByStartLine(CppTraverseForFunctions(file))

\* The keys of self.top_level_nodes that are bare names.
CppTopLevelNames(file) ==
    {n.name : n \in Range(CppTraverseForFunctions(file))}

\* _traverse_for_calls in the body of the member at index j: the caller is
\* the name _extract_function_name gives; without one the call is dropped.
CppCallsOf(file, j) ==
    LET member == file.members[j]
        current_top_level == CppExtractFunctionName(member)
    IN  IF current_top_level = NoValue THEN <<>>
        ELSE [k \in 1..Len(member.calls) |->
                [caller |-> CppModulePath \o <<".">> \o current_top_level,
                 callee |-> CppModulePath \o <<".">> \o member.calls[k],
                 call_line |-> j + 1,
                 is_resolved |-> member.calls[k] \in CppTopLevelNames(file)]]

RECURSIVE CppTraverseForCalls(_, _)
CppTraverseForCalls(file, j) ==
    IF j > Len(file.members) THEN <<>>
    ELSE CppCallsOf(file, j) \o CppTraverseForCalls(file, j + 1)

\* _extract_call_relationships
CppExtractCallRelationships(file) ==
    AddRelationships(<<>>, CppTraverseForCalls(file, 1))

CppStart ==
    /\ cpp_parsers \in {SetupParsers(inst) : inst \in Installations}
    /\ cpp_file \in CppFiles
    /\ cpp_nodes = <<>>
    /\ cpp_rels = <<>>
    /\ cpp_done = FALSE

\* analyze_cpp_file: without a parser for "cpp" analyze() returns at once.
AnalyzeCppFile ==
    /\ ~cpp_done
    /\ cpp_nodes' = IF HasParser(cpp_parsers, "cpp")
                    THEN CppExtractFunctions(cpp_file) ELSE <<>>
    /\ cpp_rels' = IF HasParser(cpp_parsers, "cpp")
                   THEN CppExtractCallRelationships(cpp_file) ELSE <<>>
    /\ cpp_done' = TRUE
    /\ UNCHANGED <<cpp_parsers, cpp_file>>
    /\ UNCHANGED notCpp

CppNext == AnalyzeCppFile

-----------------------------------------------------------------------------
(* Properties of the C++ analyzer *)

CppAnalysed == cpp_done /\ HasParser(cpp_parsers, "cpp")

CppDeclares(name) ==
    \E j \in 1..Len(cpp_file.members) : cpp_file.members[j].name = name

CppEmits(name, node_type) ==
    \E n \in Range(cpp_nodes) : n.name = name /\ n.node_type = node_type

\* C14: of class Widget, the method named Widget is emitted with node_type
\* "constructor" and the method named ~Widget with node_type "destructor";
\* the class node lists the base classes, and no relationship stands for the
\* inheritance.
C14_ConstructorDestructor ==
    CppAnalysed =>
        /\ CppDeclares(<<"Widget">>) => CppEmits(<<"Widget">>, "constructor")
        /\ CppDeclares(<<"~", "Widget">>)
              => CppEmits(<<"~", "Widget">>, "destructor")
        /\ \A n \in Range(cpp_nodes) :
              n.node_type = "class" =>
                n.base_classes =
                    IF cpp_file.bases = <<>> THEN NoValue ELSE cpp_file.bases
        /\ \A r \in Range(cpp_rels) : \A b \in Range(cpp_file.bases) :
              r.callee # CppModulePath \o <<".">> \o b

\* The component map the builder makes of the nodes of the file:
\* components[node.id] = node in list order, every field of the func_data
\* copied into the Node; a later node replaces an earlier one with its id.
CppComponents ==
    [k \in {cpp_nodes[i].id : i \in 1..Len(cpp_nodes)} |->
        cpp_nodes[CHOOSE i \in 1..Len(cpp_nodes) :
                     /\ cpp_nodes[i].id = k
                     /\ \A j \in 1..Len(cpp_nodes) :
                           cpp_nodes[j].id = k => j <= i]]

\* C19: two distinct declarations extracted from the file (a class and its
\* members, a function definition and its declarator) never receive the same
\* component id, and the component map holds one entry per extracted node.
C19_UniqueComponentIds ==
    CppAnalysed =>
        /\ \A i, j \in 1..Len(cpp_nodes) :
              cpp_nodes[i].id = cpp_nodes[j].id => i = j
        /\ Cardinality(DOMAIN CppComponents) = Len(cpp_nodes)

-----------------------------------------------------------------------------
(* PHP analyzer: TreeSitterPHPAnalyzer *)

\* Most top-level declarations of a PHP file of the model.
MaxPhpDecls == 2

PhpFunctionNames == {"__construct", "main", "run"}
PhpClassNames == {"Foo", "main"}
PhpInterfaceNames == {"IFoo"}

\* The calls of a body, all on the line of the function: names of functions.
PhpBodies == {<<>>, <<"run", "run">>}

\* Python's None where a name is expected (no name is empty).
NoName == ""

\* A function definition, or a method declaration of a class or interface.
PhpFunction(name, calls) == [name |-> name, calls |-> calls]

\* A top-level declaration: a function, or a class or an interface with at
\* most one method; a class may extend Base.
PhpDecls ==
    {[kind |-> "function_definition", name |-> n, extends |-> NoName,
      methods |-> <<>>, calls |-> c] :
        n \in PhpFunctionNames, c \in PhpBodies}
    \cup
    {[kind |-> "class_declaration", name |-> n, extends |-> e,
      methods |-> m, calls |-> <<>>] :
        n \in PhpClassNames, e \in {NoName, "Base"},
        m \in {<<>>} \cup {<<PhpFunction(f, c)>> :
                              f \in PhpFunctionNames, c \in PhpBodies}}
    \cup
    {[kind |-> "interface_declaration", name |-> n, extends |-> NoName,
      methods |-> m, calls |-> <<>>] :
        n \in PhpInterfaceNames,
        m \in {<<>>} \cup {<<PhpFunction(f, <<>>)>> : f \in PhpFunctionNames}}

\* A PHP file. The declaration of index i is on line 10 * i, its method on
\* the next line.
PhpFiles == SeqsUpTo(PhpDecls, MaxPhpDecls) \ {<<>>}

PhpModulePath == <<"p">>

\* _get_component_id
PhpComponentId(name, class_name, is_method) ==
    IF is_method /\ class_name # NoName
    THEN PhpModulePath \o <<".", class_name, ".", name>>
    ELSE PhpModulePath \o <<".", name>>

\* _should_include_function of the PHP analyzer
PhpExcludedNames ==
    {"__construct", "__destruct", "__get", "__set", "__isset", "__unset",
     "__call", "__callStatic", "__toString", "__invoke", "__set_state",
     "__clone", "__debugInfo", "main"}
PhpShouldIncludeButMain(name) == name # "main"
PhpShouldInclude(name) == name \notin PhpExcludedNames

PhpNode(name, class_name, component_type, line) ==
    [id |-> PhpComponentId(name, class_name, component_type = "method"),
     name |-> name, component_type |-> component_type,
     class_name |-> class_name, start_line |-> line]

\* _find_containing_class: the name of the enclosing class_declaration; an
\* interface is none.
PhpFindContainingClass(decl) ==
    IF decl.kind = "class_declaration" THEN decl.name ELSE NoName

\* _traverse_for_functions at a function_definition or method_declaration
\* of name `name` on line `line`, declared in `decl`.
PhpFunctionNodes(decl, name, line) ==
    LET containing_class == PhpFindContainingClass(decl) IN
    IF ~PhpShouldInclude(name) THEN <<>>
    ELSE IF containing_class = NoName
    THEN <<PhpNode(name, NoName, "function", line)>>
    ELSE <<PhpNode(name, containing_class, "method", line)>>

\* _traverse_for_functions at the declaration of index i. (The nodes of
\* _extract_methods_from_class and _extract_methods_from_interface go to
\* top_level_nodes only.)
PhpDeclNodes(file, i) ==
    LET decl == file[i] IN
    IF decl.kind = "function_definition"
    THEN PhpFunctionNodes(decl, decl.name, 10 * i)
    ELSE <<PhpNode(decl.name, NoName,
                   IF decl.kind = "class_declaration" THEN "class"
                   ELSE "interface", 10 * i)>>
         \o (IF decl.methods = <<>> THEN <<>>
             ELSE PhpFunctionNodes(decl, decl.methods[1].name, 10 * i + 1))

RECURSIVE PhpTraverseForFunctions(_, _)
PhpTraverseForFunctions(file, i) ==
    IF i > Len(file) THEN <<>>
    ELSE PhpDeclNodes(file, i) \o PhpTraverseForFunctions(file, i + 1)

\* _extract_functions
PhpExtractFunctions(file) ==
    SortByStartLine(PhpTraverseForFunctions(file, 1))

\* The keys of self.top_level_nodes that are bare names: classes,
\* interfaces and the included functions outside classes. (Methods are
\* indexed under their component id.)
PhpTopLevelNames(file) ==
    {n.name : n \in {m \in Range(PhpTraverseForFunctions(file, 1)) :
                        m.component_type # "method"}}

\* _extract_call_from_node for the calls of a body on line `line`, inside
\* the function or method named current_top_level.
PhpCalls(file, current_top_level, calls, line) ==
    [k \in 1..Len(calls) |->
        [caller |-> PhpModulePath \o <<".", current_top_level>>,
         callee |-> PhpModulePath \o <<".", calls[k]>>,
         call_line |-> line,
         is_resolved |-> calls[k] \in PhpTopLevelNames(file)]]

\* _traverse_for_calls at the declaration of index i: the inheritance
\* relationship of a class, then the calls of the bodies.
PhpDeclCalls(file, i) ==
    LET decl == file[i] IN
    IF decl.kind = "function_definition"
    THEN PhpCalls(file, decl.name, decl.calls, 10 * i)
    ELSE (IF decl.kind = "class_declaration" /\ decl.extends # NoName
          THEN <<[caller |-> PhpComponentId(decl.name, NoName, FALSE),
                  callee |-> PhpModulePath \o <<".", decl.extends>>,
                  call_line |-> 10 * i, is_resolved |-> FALSE]>>
          ELSE <<>>)
         \o (IF decl.methods = <<>> THEN <<>>
             ELSE PhpCalls(file, decl.methods[1].name, decl.methods[1].calls,
                           10 * i + 1))

RECURSIVE PhpTraverseForCalls(_, _)
PhpTraverseForCalls(file, i) ==
    IF i > Len(file) THEN <<>>
    ELSE PhpDeclCalls(file, i) \o PhpTraverseForCalls(file, i + 1)

\* _extract_call_relationships
PhpExtractCallRelationships(file) ==
    AddRelationships(<<>>, PhpTraverseForCalls(file, 1))

PhpStart ==
    /\ php_parsers \in {SetupParsers(inst) : inst \in Installations}
    /\ php_file \in PhpFiles
    /\ php_nodes = <<>>
    /\ php_rels = <<>>
    /\ php_done = FALSE

\* analyze_php_file: without a parser for "php" analyze() returns at once.
AnalyzePhpFile ==
    /\ ~php_done
    /\ php_nodes' = IF HasParser(php_parsers, "php")
                    THEN PhpExtractFunctions(php_file) ELSE <<>>
    /\ php_rels' = IF HasParser(php_parsers, "php")
                   THEN PhpExtractCallRelationships(php_file) ELSE <<>>
    /\ php_done' = TRUE
    /\ UNCHANGED <<php_parsers, php_file>>
    /\ UNCHANGED notPhp

PhpNext == AnalyzePhpFile

-----------------------------------------------------------------------------
(* Properties of the PHP analyzer *)

\* The names declared by the functions and methods of the file.
PhpDeclaredFunctions ==
    {php_file[i].name :
        i \in {k \in 1..Len(php_file) :
                 php_file[k].kind = "function_definition"}}
    \cup {php_file[i].methods[1].name :
            i \in {k \in 1..Len(php_file) : php_file[k].methods # <<>>}}

PhpFunctionNodesOut ==
    {n \in Range(php_nodes) : n.component_type \in {"function", "method"}}

\* C15: no node that analyze_php_file returns for a free function, a class
\* method or an interface method is named __construct, or by another magic
\* method name of the exclusion list, or main; the other functions and
\* methods keep their nodes.
C15_NoMagicMethodNode ==
    php_done =>
        /\ \A n \in PhpFunctionNodesOut : n.name \notin PhpExcludedNames
        /\ HasParser(php_parsers, "php") =>
              {n.name : n \in PhpFunctionNodesOut}
                  = PhpDeclaredFunctions \ PhpExcludedNames

\* A class with a method __construct, an interface with a method main and a
\* function run were analysed: only run has a function or method node.
C15_Witness ==
    /\ php_done
    /\ HasParser(php_parsers, "php")
    /\ \E i \in 1..Len(php_file) :
          /\ php_file[i].kind = "class_declaration"
          /\ php_file[i].methods # <<>>
          /\ php_file[i].methods[1].name = "__construct"
    /\ \E i \in 1..Len(php_file) :
          /\ php_file[i].kind = "interface_declaration"
          /\ php_file[i].methods # <<>>
          /\ php_file[i].methods[1].name = "main"
    /\ Len(php_nodes) = 2
    /\ PhpFunctionNodesOut = {}

\* C24: a call found inside a method of a class is attributed to that
\* method: the caller of its relationship is the id of the node emitted for
\* the method, <module_path>.<class_name>.<name>.
C24_CallerIsEnclosingMethod ==
    (php_done /\ HasParser(php_parsers, "php")) =>
        \A i \in 1..Len(php_file) :
            (/\ php_file[i].kind = "class_declaration"
             /\ php_file[i].methods # <<>>
             /\ PhpShouldInclude(php_file[i].methods[1].name))
            => \A k \in 1..Len(php_rels) :
                  php_rels[k].call_line = 10 * i + 1
                  => /\ php_rels[k].caller =
                           PhpComponentId(php_file[i].methods[1].name,
                                          php_file[i].name, TRUE)
                     /\ \E n \in Range(php_nodes) :
                           n.id = php_rels[k].caller

\* The relationship comes from a call in a body (of the function or of the
\* method of the declaration at index i), not from an extends clause.
PhpIsCallOf(r, i) ==
    IF php_file[i].kind = "function_definition"
    THEN r.call_line = 10 * i
    ELSE r.call_line = 10 * i + 1

\* C25: a call relationship has is_resolved = TRUE exactly when the name of
\* its callee is the name of a declaration indexed for the file, a function, a
\* class or a method declared inside a class alike; an inheritance edge has
\* is_resolved = FALSE.
C25_ResolvedIffDeclared ==
    (php_done /\ HasParser(php_parsers, "php")) =>
        \A k \in 1..Len(php_rels) : \A i \in 1..Len(php_file) :
            /\ PhpIsCallOf(php_rels[k], i) =>
                  (php_rels[k].is_resolved <=>
                      \E n \in Range(php_nodes) :
                          php_rels[k].callee = PhpModulePath \o <<".", n.name>>)
            /\ (/\ php_file[i].kind = "class_declaration"
                /\ php_rels[k].call_line = 10 * i)
               => ~php_rels[k].is_resolved

-----------------------------------------------------------------------------
(* Command line: main *)

\* args.command: one of the four subcommands, or None without one.
CliCommands == {"none", "analyze", "visualize", "trace-api", "search-func"}

\* What the command finds when it runs:
\*   results   the results file: absent, not JSON, JSON without the key
\*             "components", with components of which none matches the url or
\*             keyword, with a matching component that lacks a field the
\*             command prints, or with a complete matching component;
\*   repo      whether the analysis of the repository raises;
\*   writable  whether the output file can be written;
\*   output    whether analyze was given -o.
CliResultsFiles ==
    {"missing", "not_json", "no_components", "no_match", "bad_component",
     "match"}
CliEnvs ==
    [results : CliResultsFiles, repo : {"raises", "ok"},
     writable : BOOLEAN, output : BOOLEAN]

\* with open(input_file) as f: results = json.load(f); results["components"]
LoadRaises(env) == env.results \in {"missing", "not_json", "no_components"}

\* analyze_repository (cli.py): "completed" or "raised".
AnalyzeOutcome(env) ==
    IF env.repo = "raises" THEN "raised"
    ELSE IF env.output /\ ~env.writable THEN "raised"
    ELSE "completed"

\* The visualize handler: load, visualize_results, write the DOT file
\* (output has a default, so the file is always written).
VisualizeOutcome(env) ==
    IF LoadRaises(env) THEN "raised"
    ELSE IF ~env.writable THEN "raised"
    ELSE "completed"

\* trace_api_calls: returns after the "No components found" line when no
\* api_url matches; printing a component that lacks a field raises KeyError.
TraceApiOutcome(env) ==
    IF LoadRaises(env) THEN "raised"
    ELSE IF env.results = "no_match" THEN "completed"
    ELSE IF env.results = "bad_component" THEN "raised"
    ELSE "completed"

\* search_function_calls_keyword: the matching loop reads comp_data['name']
\* of every component.
SearchFuncOutcome(env) ==
    IF LoadRaises(env) THEN "raised"
    ELSE IF env.results = "bad_component" THEN "raised"
    ELSE "completed"

\* try: handler() / except Exception: print(..., file=sys.stderr);
\* sys.exit(1). A handler that returns lets main return: status 0.
MainExitAlwaysZero(outcome) == 0
MainExit(outcome) == IF outcome = "raised" THEN 1 ELSE 0

CliStart ==
    /\ cli_command \in CliCommands
    /\ cli_env \in CliEnvs
    /\ cli_outcome = "running"
    /\ cli_stderr = ""
    /\ cli_exit = -1

CliFinish(outcome, message) ==
    /\ cli_outcome = "running"
    /\ cli_outcome' = outcome
    /\ cli_stderr' = IF outcome = "raised" THEN message ELSE ""
    /\ cli_exit' = MainExit(outcome)
    /\ UNCHANGED <<cli_command, cli_env>>
    /\ UNCHANGED notCli

MainAnalyze ==
    /\ cli_command = "analyze"
    /\ CliFinish(AnalyzeOutcome(cli_env), "Error during analysis")

MainVisualize ==
    /\ cli_command = "visualize"
    /\ CliFinish(VisualizeOutcome(cli_env), "Error during visualization")

MainTraceApi ==
    /\ cli_command = "trace-api"
    /\ CliFinish(TraceApiOutcome(cli_env), "Error during API tracing")

MainSearchFunc ==
    /\ cli_command = "search-func"
    /\ CliFinish(SearchFuncOutcome(cli_env), "Error during function search")

\* No subcommand: parser.print_help(); sys.exit(1)
MainNoCommand ==
    /\ cli_command = "none"
    /\ cli_outcome = "running"
    /\ cli_outcome' = "help"
    /\ cli_exit' = 1
    /\ UNCHANGED <<cli_command, cli_env, cli_stderr>>
    /\ UNCHANGED notCli

CliNext ==
    \/ MainAnalyze
    \/ MainVisualize
    \/ MainTraceApi
    \/ MainSearchFunc
    \/ MainNoCommand

-----------------------------------------------------------------------------
(* Properties of the command line *)

CliEnded == cli_outcome # "running"

\* C16: the status is 1 without a subcommand and whenever the handler
\* raised; it is 0 when the handler completed, also when trace-api or
\* search-func found no matching component.
C16_ExitStatus ==
    CliEnded =>
        /\ cli_command = "none" => cli_exit = 1
        /\ cli_outcome = "raised" => cli_exit = 1 /\ cli_stderr # ""
        /\ cli_outcome = "completed" => cli_exit = 0
        /\ (/\ cli_command \in {"trace-api", "search-func"}
            /\ cli_env.results = "no_match") => cli_exit = 0
        /\ cli_exit \in {0, 1}

\* trace-api read a results file without the key "components": the handler
\* raised and the status is 1.
C16_Witness ==
    /\ cli_command = "trace-api"
    /\ cli_env.results = "no_components"
    /\ cli_outcome = "raised"
    /\ cli_exit = 1

-----------------------------------------------------------------------------
(* Analysis service: CallGraphAnalysisService *)

SvcEntries == {"analyze_repository", "analyze_repository_structure_only"}

\* The stages of the pipeline, in order: the scanner, the extraction and
\* dispatch of code files, the merge of the two summaries.
SvcStages == <<"structure", "call_graph", "merge">>

\* An exception: its type and its argument (a text, as tokens).
SvcExceptionTypes == {"PermissionError", "KeyError", "ValueError"}
SvcTexts == {<<"denied">>, <<"total_functions">>, <<>>}
SvcException(type, text) == [type |-> type, text |-> text]

\* What goes wrong in a run: nothing, or one stage raises an exception.
NoFault == [stage |-> "none", exc |-> SvcException("none", <<>>)]
SvcFaults ==
    {NoFault} \cup
    {[stage |-> s, exc |-> SvcException(t, x)] :
        s \in Range(SvcStages), t \in SvcExceptionTypes, x \in SvcTexts}

\* str(e): the argument; a KeyError shows the repr of its key.
Str(exc) ==
    IF exc.type = "KeyError" THEN <<"'">> \o exc.text \o <<"'">>
    ELSE exc.text

\* The text that opens the message of the re-raised failure.
SvcPrefix(entry) ==
    IF entry = "analyze_repository" THEN <<"Repository analysis failed: ">>
    ELSE <<"Structure analysis failed: ">>

\* except Exception as e: raise RuntimeError(f"<prefix>{str(e)}")
SvcReRaiseOriginal(entry, exc) == exc
SvcReRaise(entry, exc) ==
    SvcException("RuntimeError", SvcPrefix(entry) \o Str(exc))

\* The stage that follows `stage` for the entry point; "returned" after the
\* last one. analyze_repository_structure_only runs the scanner only.
SvcAfter(entry, stage) ==
    IF entry = "analyze_repository_structure_only" THEN "returned"
    ELSE IF stage = "structure" THEN "call_graph"
    ELSE IF stage = "call_graph" THEN "merge"
    ELSE "returned"

SvcStart ==
    /\ svc_entry \in SvcEntries
    /\ svc_fault \in SvcFaults
    /\ svc_pc = "structure"
    /\ svc_error = SvcException("none", <<>>)
    /\ svc_caught = 0

\* One stage inside the try block: it returns, or it raises and the except
\* clause of the entry point catches the exception and raises its own.
SvcStage(stage) ==
    /\ IF svc_fault.stage = stage
       THEN /\ svc_pc' = "raised"
            /\ svc_error' = SvcReRaise(svc_entry, svc_fault.exc)
            /\ svc_caught' = svc_caught + 1
       ELSE /\ svc_pc' = SvcAfter(svc_entry, stage)
            /\ UNCHANGED <<svc_error, svc_caught>>
    /\ UNCHANGED <<svc_entry, svc_fault>>
    /\ UNCHANGED notSvc

\* _analyze_structure
SvcAnalyzeStructure ==
    /\ svc_pc = "structure"
    /\ SvcStage("structure")

\* _analyze_call_graph
SvcAnalyzeCallGraph ==
    /\ svc_pc = "call_graph"
    /\ SvcStage("call_graph")

\* The construction of the result dictionary from the two results.
SvcMerge ==
    /\ svc_pc = "merge"
    /\ SvcStage("merge")

SvcNext ==
    \/ SvcAnalyzeStructure
    \/ SvcAnalyzeCallGraph
    \/ SvcMerge

-----------------------------------------------------------------------------
(* Properties of the analysis service *)

\* The stages the entry point runs.
SvcRuns(entry, stage) ==
    /\ stage \in Range(SvcStages)
    /\ entry = "analyze_repository" \/ stage = "structure"

-----------------------------------------------------------------------------
(* Safe file operations: utils/security.py *)

MaxSegments == 3

\* A path is absolute or relative to the working directory, and a sequence
\* of segments; ".." is the parent segment.
PathSegments == {"base", "sub", "link", "etc", ".."}
PathsOf(absolute) ==
    {[absolute |-> absolute, segs |-> s] : s \in SeqsUpTo(PathSegments, MaxSegments)}
TargetPaths == PathsOf(TRUE) \cup PathsOf(FALSE)
BasePaths ==
    {[absolute |-> TRUE, segs |-> <<"base">>],
     [absolute |-> TRUE, segs |-> <<"base", "sub">>],
     [absolute |-> FALSE, segs |-> <<>>],
     [absolute |-> TRUE, segs |-> <<"base", "link">>]}

\* The file system the paths are resolved in: the working directory, one
\* symbolic link that leaves /base, and the text files.
WorkingDirectory == <<"base">>
IsSymlink(resolved) == resolved = <<"base", "link">>
SymlinkTarget(resolved) == <<"etc">>
TextFiles == {<<"base", "sub">>, <<"etc">>, <<"base", "sub", "sub">>}
ContentOf(resolved) == <<"text of">> \o resolved

\* Path.resolve(): the absolute canonical form. Segments are taken left to
\* right from the root or the working directory; ".." removes the last
\* segment (the root is its own parent) and a symbolic link is replaced by
\* its target.
RECURSIVE ResolveFrom(_, _)
ResolveFrom(resolved, segs) ==
    IF segs = <<>> THEN resolved
    ELSE LET step == IF Head(segs) = ".."
                     THEN IF resolved = <<>> THEN <<>>
                          ELSE SubSeq(resolved, 1, Len(resolved) - 1)
                     ELSE resolved \o <<Head(segs)>>
             real == IF IsSymlink(step) THEN SymlinkTarget(step) ELSE step
         IN  ResolveFrom(real, Tail(segs))

Resolve(path) ==
    ResolveFrom(IF path.absolute THEN <<>> ELSE WorkingDirectory, path.segs)

\* PurePath.relative_to(base) succeeds when the parts of base open the
\* parts of the path.
RelativeTo(target, base) ==
    /\ Len(base) <= Len(target)
    /\ \A i \in 1..Len(base) : target[i] = base[i]

\* assert_safe_path: True, or ValueError; of the message
\* "Path traversal detected: {target} is not within {base}" the result keeps
\* the two paths it is formatted from.
SecResult(outcome, message) == [outcome |-> outcome, message |-> message]
AssertSafePathAlwaysTrue(base_path, target_path) == SecResult("True", <<>>)
AssertSafePath(base_path, target_path) ==
    LET base == Resolve(base_path)
        target == Resolve(target_path)
    IN  IF RelativeTo(target, base)
        THEN SecResult("True", <<>>)
        ELSE SecResult("ValueError", <<target, base>>)

SecNoText == <<"None">>

SecStart ==
    /\ sec_base \in BasePaths
    /\ sec_target \in TargetPaths
    /\ sec_pc = "ready"
    /\ sec_result = SecResult("none", <<>>)
    /\ sec_opened = {}
    /\ sec_text = SecNoText

\* A call of the guard alone.
CallAssertSafePath ==
    /\ sec_pc = "ready"
    /\ sec_result' = AssertSafePath(sec_base, sec_target)
    /\ sec_pc' = "guarded"
    /\ UNCHANGED <<sec_base, sec_target, sec_opened, sec_text>>
    /\ UNCHANGED notSec

\* safe_open_text: the guard, then open() and read(); the ValueError of the
\* guard leaves the function before open(), and open() fails on a path that
\* is no text file.
SafeOpenText ==
    /\ sec_pc = "ready"
    /\ LET guard == AssertSafePath(sec_base, sec_target)
           file == Resolve(sec_target)
       IN  IF guard.outcome # "True"
           THEN /\ sec_result' = guard
                /\ UNCHANGED <<sec_opened, sec_text>>
           ELSE /\ sec_opened' = sec_opened \cup {file}
                /\ IF file \in TextFiles
                   THEN /\ sec_text' = ContentOf(file)
                        /\ sec_result' = SecResult("returned", <<>>)
                   ELSE /\ sec_text' = SecNoText
                        /\ sec_result' = SecResult("OSError", <<>>)
    /\ sec_pc' = "opened"
    /\ UNCHANGED <<sec_base, sec_target>>
    /\ UNCHANGED notSec

SecNext ==
    \/ CallAssertSafePath
    \/ SafeOpenText

-----------------------------------------------------------------------------
(* Properties of the safe file operations *)

\* The resolved target is the resolved base or lies below it.
IsWithin(target, base) ==
    Len(target) >= Len(base) /\ SubSeq(target, 1, Len(base)) = base

SecSafe == IsWithin(Resolve(sec_target), Resolve(sec_base))

\* The message names the path.
SecNames(message, resolved) ==
    \E i \in 1..Len(message) : message[i] = resolved

\* C18: assert_safe_path succeeds exactly when the resolved target is the
\* resolved base or a descendant of it, and otherwise fails with an error
\* that names both resolved paths; safe_open_text returns the text of the
\* file only when the guard succeeds, and opens nothing when it fails.
C18_SafePathGuard ==
    /\ sec_pc = "guarded" =>
          /\ sec_result.outcome = "True" <=> SecSafe
          /\ sec_result.outcome # "True" =>
                /\ sec_result.outcome = "ValueError"
                /\ SecNames(sec_result.message, Resolve(sec_target))
                /\ SecNames(sec_result.message, Resolve(sec_base))
    /\ sec_pc = "opened" =>
          /\ sec_text # SecNoText =>
                /\ SecSafe
                /\ sec_text = ContentOf(Resolve(sec_target))
          /\ ~SecSafe =>
                /\ sec_opened = {}
                /\ sec_result.outcome = "ValueError"
          /\ SecSafe => sec_opened = {Resolve(sec_target)}

\* safe_open_text was asked for base/link, a symbolic link to the text file
\* /etc outside the base, and refused without opening it.
C18_Witness ==
    /\ sec_pc = "opened"
    /\ sec_base = [absolute |-> TRUE, segs |-> <<"base">>]
    /\ sec_target = [absolute |-> FALSE, segs |-> <<"link">>]
    /\ sec_result.outcome = "ValueError"
    /\ sec_opened = {}

-----------------------------------------------------------------------------
(* Specifications *)

BuildIdle ==
    /\ nodes = <<>>
    /\ functions = <<>>
    /\ relationships = <<>>
    /\ components = EmptyMap
    /\ leaf_nodes = <<>>
    /\ phase = "idle"

TraceIdle ==
    /\ trace_components = EmptyMap
    /\ trace_args = [api_url |-> "", recursive |-> FALSE, max_depth |-> 0]
    /\ matching = <<>>
    /\ stack = <<>>
    /\ out = <<>>
    /\ http_lines = <<>>
    /\ pc = "idle"

VizIdle ==
    /\ viz_components = <<>>
    /\ dot = [f \in BOOLEAN |-> <<>>]

SearchIdle ==
    /\ search_components = EmptyMap
    /\ search_args = [keyword |-> "", max_depth |-> 0]
    /\ search_out = <<>>

ScanIdle ==
    /\ fs = {}
    /\ denied = {}
    /\ scan_root = <<>>
    /\ include_patterns = <<>>
    /\ exclude_patterns = <<>>
    /\ file_tree = NoTree
    /\ total_files = 0
    /\ scanned = FALSE

JavaIdle ==
    /\ java_file = <<>>
    /\ java_body = <<>>
    /\ java_nodes = <<>>
    /\ java_rels = <<>>
    /\ java_done = FALSE
    /\ java_too_deep = FALSE
    /\ java_outcome = "none"

CIdle ==
    /\ c_parsers = {}
    /\ c_file = <<>>
    /\ c_nodes = <<>>
    /\ c_rels = <<>>
    /\ c_done = FALSE

CppIdle ==
    /\ cpp_parsers = {}
    /\ cpp_file = <<>>
    /\ cpp_nodes = <<>>
    /\ cpp_rels = <<>>
    /\ cpp_done = FALSE

PhpIdle ==
    /\ php_parsers = {}
    /\ php_file = <<>>
    /\ php_nodes = <<>>
    /\ php_rels = <<>>
    /\ php_done = FALSE

CliIdle ==
    /\ cli_command = "none"
    /\ cli_env = [results |-> "missing", repo |-> "ok", writable |-> FALSE, output |-> FALSE]
    /\ cli_outcome = "idle"
    /\ cli_stderr = ""
    /\ cli_exit = -1

SvcIdle ==
    /\ svc_entry = "none"
    /\ svc_fault = NoFault
    /\ svc_pc = "idle"
    /\ svc_error = SvcException("none", <<>>)
    /\ svc_caught = 0

SecIdle ==
    /\ sec_base = [absolute |-> TRUE, segs |-> <<>>]
    /\ sec_target = [absolute |-> TRUE, segs |-> <<>>]
    /\ sec_pc = "idle"
    /\ sec_result = SecResult("none", <<>>)
    /\ sec_opened = {}
    /\ sec_text = SecNoText

BuildInit ==
    /\ BuildStart
    /\ TraceIdle
    /\ VizIdle
    /\ SearchIdle
    /\ ScanIdle
    /\ JavaIdle
    /\ CIdle
    /\ CppIdle
    /\ PhpIdle
    /\ CliIdle
    /\ SvcIdle
    /\ SecIdle
SpecBuild == BuildInit /\ [][BuildNext]_vars

TraceInit ==
    /\ TraceStart
    /\ BuildIdle
    /\ VizIdle
    /\ SearchIdle
    /\ ScanIdle
    /\ JavaIdle
    /\ CIdle
    /\ CppIdle
    /\ PhpIdle
    /\ CliIdle
    /\ SvcIdle
    /\ SecIdle
SpecTrace == TraceInit /\ [][TraceNext]_vars
\* The command is a sequential program: it keeps running until it returns.
SpecTraceFair == SpecTrace /\ WF_vars(TraceNext)

VizInit ==
    /\ VizStart
    /\ BuildIdle
    /\ TraceIdle
    /\ SearchIdle
    /\ ScanIdle
    /\ JavaIdle
    /\ CIdle
    /\ CppIdle
    /\ PhpIdle
    /\ CliIdle
    /\ SvcIdle
    /\ SecIdle
SpecViz == VizInit /\ [][VizNext]_vars

SearchInit ==
    /\ SearchStart
    /\ BuildIdle
    /\ TraceIdle
    /\ VizIdle
    /\ ScanIdle
    /\ JavaIdle
    /\ CIdle
    /\ CppIdle
    /\ PhpIdle
    /\ CliIdle
    /\ SvcIdle
    /\ SecIdle
SpecSearch == SearchInit /\ [][SearchNext]_vars

ScanInit ==
    /\ ScanStart
    /\ BuildIdle
    /\ TraceIdle
    /\ VizIdle
    /\ SearchIdle
    /\ JavaIdle
    /\ CIdle
    /\ CppIdle
    /\ PhpIdle
    /\ CliIdle
    /\ SvcIdle
    /\ SecIdle
SpecScan == ScanInit /\ [][ScanNext]_vars

JavaInit ==
    /\ JavaStart
    /\ BuildIdle
    /\ TraceIdle
    /\ VizIdle
    /\ SearchIdle
    /\ ScanIdle
    /\ CIdle
    /\ CppIdle
    /\ PhpIdle
    /\ CliIdle
    /\ SvcIdle
    /\ SecIdle
SpecJava == JavaInit /\ [][JavaNext]_vars

CInit ==
    /\ CStart
    /\ BuildIdle
    /\ TraceIdle
    /\ VizIdle
    /\ SearchIdle
    /\ ScanIdle
    /\ JavaIdle
    /\ CppIdle
    /\ PhpIdle
    /\ CliIdle
    /\ SvcIdle
    /\ SecIdle
SpecC == CInit /\ [][CNext]_vars

CppInit ==
    /\ CppStart
    /\ BuildIdle
    /\ TraceIdle
    /\ VizIdle
    /\ SearchIdle
    /\ ScanIdle
    /\ JavaIdle
    /\ CIdle
    /\ PhpIdle
    /\ CliIdle
    /\ SvcIdle
    /\ SecIdle
SpecCpp == CppInit /\ [][CppNext]_vars

PhpInit ==
    /\ PhpStart
    /\ BuildIdle
    /\ TraceIdle
    /\ VizIdle
    /\ SearchIdle
    /\ ScanIdle
    /\ JavaIdle
    /\ CIdle
    /\ CppIdle
    /\ CliIdle
    /\ SvcIdle
    /\ SecIdle
SpecPhp == PhpInit /\ [][PhpNext]_vars

CliInit ==
    /\ CliStart
    /\ BuildIdle
    /\ TraceIdle
    /\ VizIdle
    /\ SearchIdle
    /\ ScanIdle
    /\ JavaIdle
    /\ CIdle
    /\ CppIdle
    /\ PhpIdle
    /\ SvcIdle
    /\ SecIdle
SpecCli == CliInit /\ [][CliNext]_vars

SvcInit ==
    /\ SvcStart
    /\ BuildIdle
    /\ TraceIdle
    /\ VizIdle
    /\ SearchIdle
    /\ ScanIdle
    /\ JavaIdle
    /\ CIdle
    /\ CppIdle
    /\ PhpIdle
    /\ CliIdle
    /\ SecIdle
SpecSvc == SvcInit /\ [][SvcNext]_vars

SecInit ==
    /\ SecStart
    /\ BuildIdle
    /\ TraceIdle
    /\ VizIdle
    /\ SearchIdle
    /\ ScanIdle
    /\ JavaIdle
    /\ CIdle
    /\ CppIdle
    /\ PhpIdle
    /\ CliIdle
    /\ SvcIdle
SpecSec == SecInit /\ [][SecNext]_vars

=============================================================================
